---- MODULE Spec2Model ----
(***************************************************************************)
(* StakeFlow wager challenge engine.                                       *)
(*                                                                         *)
(* The model follows the wallet server (src/unnamed/part_001, lines        *)
(* 1-1080): an express application over a synchronous better-sqlite3       *)
(* store.  Node runs one handler at a time and a handler gives up control  *)
(* only at an await, so a handler is one atomic step per stretch between   *)
(* awaits.  The only awaits that sit before a store write are the payment  *)
(* gateway calls of confirm-funds and withdraw; these two handlers are     *)
(* split in two steps and their requests are kept in `inflight`.           *)
(***************************************************************************)
EXTENDS Integers, Sequences, FiniteSets, Bags, TLC

VARIABLES users, transactions, challenges, challenge_players, inflight

\* socket.io: the events the last request emitted to the challenge's room,
\* the sockets that joined the room, and what each socket has received
VARIABLES emitted, rooms, received

\* the desktop monitor (src/unnamed/part_002): its module variables, the
\* interval timers alive in the runtime, the interval callbacks suspended at
\* an await, and the messages the last step sent to the renderer
VARIABLES sessionActive, sessionData, screenshotInterval, timers, callbacks, sent

\* the number of start-session calls so far, and the distractions detected
\* by callbacks of the session started last
VARIABLES session, detected

\* the JSON-file store (src/unnamed/part_001, lines 1082-1361)
VARIABLE data

serverVars == <<users, transactions, challenges, challenge_players, inflight>>

socketVars == <<emitted, rooms, received>>

monitorVars == <<sessionActive, sessionData, screenshotInterval, timers,
                 callbacks, sent, session, detected>>

vars == <<users, transactions, challenges, challenge_players, inflight,
          emitted, rooms, received,
          sessionActive, sessionData, screenshotInterval, timers, callbacks,
          sent, session, detected, data>>

----------------------------------------------------------------------------
(* Bounds of the model *)

\* transaction rows after which no further request is accepted by the model
MaxTx == 3
\* challenge_players rows after which the model issues no further join
MaxRoster == 2
\* requests that may wait on the payment gateway at the same time
MaxInflight == 2
\* total_sessions after which the model issues no further solo completion
MaxSessions == 1

----------------------------------------------------------------------------
(* Values *)

Null == "null"

\* the user ids requests carry
UserIds == {"a", "b"}
Registered == {"a", "b"}

ChallengeIds == {"CH1"}

Types == {"solo", "friend", "royale", "group"}

\* stake of a create request, in cents (Math.round(stake * 100))
Stakes == {1000}

\* duration of a create request in minutes
Durations == {25}

\* maxPlayers of a create request; 0 stands for an absent value
MaxPlayersArgs == {0, 2}

\* amountCents of a withdraw request
WithdrawAmounts == {1000}

\* payment intents known to the gateway: owner (metadata.userId), amount, status
PaymentIds == {"pi1", "pi2"}
PaymentIntent(pi) ==
    IF pi = "pi1"
    THEN [userId |-> "a", amount |-> 1000, status |-> "succeeded"]
    ELSE [userId |-> "b", amount |-> 1000, status |-> "processing"]

----------------------------------------------------------------------------
(* Pure helpers *)

\* Math.round(n / d) for d > 0: the nearest integer, halves towards +infinity
Round(n, d) == (2 * n + d) \div (2 * d)

\* Math.floor(n / d) for d > 0
Floor(n, d) == n \div d

Max(x, y) == IF x >= y THEN x ELSE y

\* the tier starting above $100 instead of at $100
getPlatformFeeAbove(stakeAmountCents) ==
    IF stakeAmountCents > 100 * 100 THEN 15 ELSE 10

getPlatformFee(stakeAmountCents) ==
    IF stakeAmountCents >= 100 * 100 THEN 15 ELSE 10

\* the bonus of the streak as it is after the win
getStreakBonusAfterWin(streak) ==
    IF streak + 1 >= 7 THEN 10
    ELSE IF streak + 1 >= 5 THEN 7
    ELSE IF streak + 1 >= 3 THEN 5
    ELSE 0

\* the bonus in percent (0.10, 0.07, 0.05, 0 in the source)
getStreakBonus(streak) ==
    IF streak >= 7 THEN 10
    ELSE IF streak >= 5 THEN 7
    ELSE IF streak >= 3 THEN 5
    ELSE 0

RECURSIVE SumAmounts(_)
SumAmounts(txs) ==
    IF txs = <<>> THEN 0 ELSE Head(txs).amount + SumAmounts(Tail(txs))

----------------------------------------------------------------------------
(* Store statements *)

NewUser ==
    [balance |-> 0, total_sessions |-> 0, total_wins |-> 0,
     total_focus_minutes |-> 0, money_won |-> 0, money_lost |-> 0,
     current_streak |-> 0, best_streak |-> 0]

\* stripe_connect_id set and stripe_connect_verified = 1
ConnectVerified(u) == u = "a"

\* the row with the amount recorded without its sign
TxUnsigned(u, type, amount, ch, pay) ==
    [user_id |-> u, type |-> type,
     amount |-> IF amount < 0 THEN -amount ELSE amount,
     challenge_id |-> ch, stripe_payment_id |-> pay]

\* INSERT INTO transactions (user_id, type, amount, ..., challenge_id |
\* stripe_payment_id)
Tx(u, type, amount, ch, pay) ==
    [user_id |-> u, type |-> type, amount |-> amount,
     challenge_id |-> ch, stripe_payment_id |-> pay]

\* the update without its WHERE clause
AddBalanceEveryUser(us, u, amount) ==
    [v \in DOMAIN us |-> [us[v] EXCEPT !.balance = @ + amount]]

\* UPDATE users SET balance = balance + ? WHERE id = ?
AddBalance(us, u, amount) ==
    IF u \in DOMAIN us
    THEN [us EXCEPT ![u].balance = @ + amount]
    ELSE us

\* SELECT * FROM challenge_players WHERE challenge_id = ?
PlayersOf(rows, id) == SelectSeq(rows, LAMBDA p : p.challenge_id = id)

NewPlayer(id, u) ==
    [challenge_id |-> id, user_id |-> u, paid |-> TRUE, ready |-> FALSE,
     failed |-> FALSE, completed |-> FALSE]

\* a request waiting on the payment gateway: the handler, req.userId, the
\* body's paymentIntentId or amountCents, and req.user.balance as read by
\* authMiddleware
Request(kind, u, pay, amountCents, balance) ==
    [kind |-> kind, user_id |-> u, payment |-> pay,
     amount |-> amountCents, balance |-> balance]

Waiting == BagToSet(inflight)

CanWait == BagCardinality(inflight) < MaxInflight

Room == Len(transactions) < MaxTx

----------------------------------------------------------------------------
(* The parts of the system a specification leaves at rest *)

\* the sockets connected to the server
Sockets == {"s1"}

\* no socket has joined a room and nothing was emitted
SocketsInit ==
    /\ emitted = <<>>
    /\ rooms = [id \in ChallengeIds |-> {}]
    /\ received = [s \in Sockets |-> <<>>]

\* part_002 as loaded: sessionActive = false, sessionData with no
\* distraction and no screenshot, screenshotInterval undefined (0)
MonitorInit ==
    /\ sessionActive = FALSE
    /\ sessionData = [distractionCount |-> 0, screenshots |-> 0]
    /\ screenshotInterval = 0
    /\ timers = {}
    /\ callbacks = EmptyBag
    /\ sent = <<>>
    /\ session = 0
    /\ detected = 0

\* let data = { users: {}, challenges: {}, challenge_players: [],
\* transactions: [], selfies: [] }
DataInit ==
    data = [users |-> [u \in {} |-> Null],
            challenges |-> [id \in {} |-> Null],
            transactions |-> <<>>]

\* the sockets, the desktop monitor and the JSON-file store take no part
AtRest == SocketsInit /\ MonitorInit /\ DataInit

Rest == UNCHANGED <<socketVars, monitorVars, data>>

----------------------------------------------------------------------------
(* Initial state: two signed-up users, nothing else *)

Init ==
    /\ users = [u \in Registered |-> NewUser]
    /\ transactions = <<>>
    /\ challenges = [id \in {} |-> Null]
    /\ challenge_players = <<>>
    /\ inflight = EmptyBag
    /\ AtRest

----------------------------------------------------------------------------
(* Wallet: POST /api/wallet/confirm-funds *)

\* the lookup matching the parameter against user_id instead
ExistingPaymentByUser(txs, paymentIntentId) ==
    \E i \in 1..Len(txs) : txs[i].user_id = paymentIntentId

\* SELECT id FROM transactions WHERE stripe_payment_id = ?
ExistingPayment(txs, paymentIntentId) ==
    \E i \in 1..Len(txs) : txs[i].stripe_payment_id = paymentIntentId

\* authMiddleware passed; the handler waits on stripe.paymentIntents.retrieve
ConfirmFundsBegin(u, paymentIntentId) ==
    /\ inflight' = inflight (+)
                        SetToBag({Request("confirm", u, paymentIntentId, 0, 0)})
    /\ UNCHANGED <<users, transactions, challenges, challenge_players>>

\* the retrieve resolved; the rest of the handler runs without another await
ConfirmFundsResume(r) ==
    /\ r.kind = "confirm"
    /\ LET u == r.user_id
           paymentIntentId == r.payment
           paymentIntent == PaymentIntent(paymentIntentId)
       IN  /\ inflight' = inflight (-) SetToBag({r})
           /\ IF \/ paymentIntent.status # "succeeded"
                 \/ paymentIntent.userId # u
                 \/ ExistingPayment(transactions, paymentIntentId)
              THEN UNCHANGED <<users, transactions>>
              ELSE /\ users' = AddBalance(users, u, paymentIntent.amount)
                   /\ transactions' = Append(transactions,
                          Tx(u, "deposit", paymentIntent.amount, Null,
                             paymentIntentId))
    /\ UNCHANGED <<challenges, challenge_players>>

----------------------------------------------------------------------------
(* Wallet: POST /api/wallet/withdraw *)

\* the three checks made on req.user before the transfer is requested
WithdrawAccepted(u, amountCents) ==
    /\ ~(amountCents < 1000)
    /\ ~(amountCents > users[u].balance)
    /\ ConnectVerified(u)

WithdrawBegin(u, amountCents) ==
    /\ IF WithdrawAccepted(u, amountCents)
       THEN inflight' = inflight (+)
               SetToBag({Request("withdraw", u, Null, amountCents,
                                 users[u].balance)})
       ELSE UNCHANGED inflight
    /\ UNCHANGED <<users, transactions, challenges, challenge_players>>

\* the deduction computed from the balance the handler read before the
\* transfer (req.user.balance - amountCents)
DeductedFromRead(current, reqBalance, amountCents) == reqBalance - amountCents

\* the balance written by the deduction: balance - amountCents, computed by
\* the store on the row as it is now (reqBalance is req.user.balance, read
\* before the transfer was requested)
DeductedBalance(current, reqBalance, amountCents) == current - amountCents

\* stripe.transfers.create resolved (ok) or threw (~ok)
WithdrawResume(r, ok) ==
    /\ r.kind = "withdraw"
    /\ LET u == r.user_id
           amountCents == r.amount
       IN  /\ inflight' = inflight (-) SetToBag({r})
           /\ IF ok
              THEN /\ users' = [users EXCEPT ![u].balance =
                          DeductedBalance(@, r.balance, amountCents)]
                   /\ transactions' = Append(transactions,
                          Tx(u, "withdrawal", -amountCents, Null, "tr"))
              ELSE UNCHANGED <<users, transactions>>
    /\ UNCHANGED <<challenges, challenge_players>>

----------------------------------------------------------------------------
(* Challenges: POST /api/challenges *)

\* maxPlayers || (type === 'solo' ? 1 : type === 'friend' ? 2 : 5)
DefaultPlayers(type, maxPlayers) ==
    IF maxPlayers # 0 THEN maxPlayers
    ELSE IF type = "solo" THEN 1
    ELSE IF type = "friend" THEN 2
    ELSE 5

\* auth: the request carries a valid token, so req.user is the caller's row;
\* otherwise req.user is undefined and the user id is taken from the body
ReqUser(u, auth) == auth /\ u \in DOMAIN users

CreateChallenge(id, u, auth, type, stake, duration, maxPlayers) ==
    /\ id \notin DOMAIN challenges
    /\ auth => u \in Registered
    /\ LET stakeAmount == stake
           durationMinutes == IF type = "royale" THEN 0 ELSE duration
           players == DefaultPlayers(type, maxPlayers)
           escrow == ReqUser(u, auth) /\ type # "solo"
       IN  IF escrow /\ users[u].balance < stakeAmount
           THEN UNCHANGED <<users, transactions, challenges, challenge_players>>
           ELSE /\ challenges' = (id :> [type |-> type, creator_id |-> u,
                                         stake_amount |-> stakeAmount,
                                         duration_minutes |-> durationMinutes,
                                         max_players |-> players,
                                         status |-> "pending",
                                         winner_id |-> Null,
                                         started_at |-> Null,
                                         ended_at |-> Null]) @@ challenges
                /\ challenge_players' = Append(challenge_players, NewPlayer(id, u))
                /\ IF escrow
                   THEN /\ users' = AddBalance(users, u, -stakeAmount)
                        /\ transactions' = Append(transactions,
                               Tx(u, "stake", -stakeAmount, id, Null))
                   ELSE UNCHANGED <<users, transactions>>
    /\ UNCHANGED inflight

----------------------------------------------------------------------------
(* Challenges: POST /api/challenges/:id/join *)

JoinChallenge(id, u, auth) ==
    /\ auth => u \in Registered
    /\ IF id \notin DOMAIN challenges
       THEN UNCHANGED <<users, transactions, challenge_players>>
       ELSE LET challenge == challenges[id]
                players == PlayersOf(challenge_players, id)
            IN  IF \/ challenge.status # "pending"
                   \/ Len(players) >= challenge.max_players
                   \/ ReqUser(u, auth) /\ users[u].balance < challenge.stake_amount
                THEN UNCHANGED <<users, transactions, challenge_players>>
                ELSE /\ IF ReqUser(u, auth)
                        THEN /\ users' = AddBalance(users, u, -challenge.stake_amount)
                             /\ transactions' = Append(transactions,
                                    Tx(u, "stake", -challenge.stake_amount, id, Null))
                        ELSE UNCHANGED <<users, transactions>>
                     /\ challenge_players' =
                            Append(challenge_players, NewPlayer(id, u))
    /\ UNCHANGED <<challenges, inflight>>

----------------------------------------------------------------------------
(* Challenges: POST /api/challenges/:id/ready *)

\* UPDATE challenge_players SET ready = 1 WHERE challenge_id = ? AND user_id = ?
SetReady(rows, id, u) ==
    [i \in 1..Len(rows) |->
        IF rows[i].challenge_id = id /\ rows[i].user_id = u
        THEN [rows[i] EXCEPT !.ready = TRUE] ELSE rows[i]]

\* players.length >= 2 && players.every(p => p.ready)
AllReady(players) ==
    /\ Len(players) >= 2
    /\ \A i \in 1..Len(players) : players[i].ready

MarkReady(id, u) ==
    /\ challenge_players' = SetReady(challenge_players, id, u)
    /\ LET players == PlayersOf(challenge_players', id)
       IN  IF AllReady(players) /\ id \in DOMAIN challenges
           THEN challenges' = [challenges EXCEPT ![id].status = "active",
                                                 ![id].started_at = "ts"]
           ELSE UNCHANGED challenges
    /\ UNCHANGED <<users, transactions, inflight>>

----------------------------------------------------------------------------
(* Settlement *)

\* the store as a handler threads it through its statements
Store(us, txs, chs) == [users |-> us, transactions |-> txs, challenges |-> chs]

\* the update without the streak
WinStatsStreakKept(user, won, minutes) ==
    [user EXCEPT !.total_wins = @ + 1,
                 !.total_sessions = @ + 1,
                 !.money_won = @ + won,
                 !.total_focus_minutes = @ + minutes]

\* UPDATE users SET total_wins = total_wins + 1, total_sessions = ...,
\* money_won = money_won + ?, current_streak = current_streak + 1,
\* best_streak = MAX(best_streak, current_streak + 1)
WinStats(user, won, minutes) ==
    [user EXCEPT !.total_wins = @ + 1,
                 !.total_sessions = @ + 1,
                 !.money_won = @ + won,
                 !.total_focus_minutes = @ + minutes,
                 !.current_streak = @ + 1,
                 !.best_streak = Max(@, user.current_streak + 1)]

\* the pot counted over the players who have not failed
WinningsOfRemaining(challenge, players) ==
    Round(challenge.stake_amount * Len(SelectSeq(players, LAMBDA p : ~p.failed))
            * (100 - getPlatformFee(challenge.stake_amount)), 100)

\* Math.round(totalPot * (100 - fee) / 100)
Winnings(challenge, players) ==
    Round(challenge.stake_amount * Len(players)
            * (100 - getPlatformFee(challenge.stake_amount)), 100)

\* Math.round(winnings * (1 + bonus))
TotalWinnings(winnings, streak) ==
    Round(winnings * (100 + getStreakBonus(streak)), 100)

endChallengeWithWinner(st, challengeId, winnerId, challenge, players) ==
    LET winnings == Winnings(challenge, players)
        chs == [st.challenges EXCEPT ![challengeId].status = "completed",
                                     ![challengeId].winner_id = winnerId,
                                     ![challengeId].ended_at = "ts"]
    IN  IF winnerId \in DOMAIN st.users
        THEN LET winner == st.users[winnerId]
                 totalWinnings == TotalWinnings(winnings, winner.current_streak)
                 credited == [winner EXCEPT !.balance = @ + totalWinnings]
             IN  Store([st.users EXCEPT ![winnerId] =
                            WinStats(credited, totalWinnings, 0)],
                       Append(st.transactions,
                              Tx(winnerId, "win", totalWinnings, challengeId, Null)),
                       chs)
        ELSE Store(st.users, st.transactions, chs)

RECURSIVE PaySurvivors(_, _, _, _)
\* for (const survivor of survivors) { balance + refund; INSERT 'win' }
PaySurvivors(st, survivors, refund, challengeId) ==
    IF survivors = <<>> THEN st
    ELSE LET v == Head(survivors).user_id
             paid == IF v \in DOMAIN st.users
                     THEN Store(AddBalance(st.users, v, refund),
                                Append(st.transactions,
                                       Tx(v, "win", refund, challengeId, Null)),
                                st.challenges)
                     ELSE st
         IN  PaySurvivors(paid, Tail(survivors), refund, challengeId)

endGroupChallenge(st, challengeId, challenge, players) ==
    LET survivors == SelectSeq(players, LAMBDA p : p.completed /\ ~p.failed)
        losers == SelectSeq(players, LAMBDA p : p.failed)
        \* UPDATE challenges SET status = 'completed', ended_at = ?
        ended(s) == Store(s.users, s.transactions,
                          [s.challenges EXCEPT ![challengeId].status = "completed",
                                               ![challengeId].ended_at = "ts"])
    IN  IF Len(survivors) = 0
        THEN ended(st)
        ELSE LET loserPot == Len(losers) * challenge.stake_amount
                 fee == getPlatformFee(challenge.stake_amount)
                 distributablePot == Round(loserPot * (100 - fee), 100)
                 perSurvivor == Floor(distributablePot, Len(survivors))
                 refund == challenge.stake_amount + perSurvivor
             IN  ended(PaySurvivors(st, survivors, refund, challengeId))

----------------------------------------------------------------------------
(* Challenges: POST /api/challenges/:id/fail *)

\* UPDATE challenge_players SET failed = 1, failed_at = ?
\* WHERE challenge_id = ? AND user_id = ?
SetFailed(rows, id, u) ==
    [i \in 1..Len(rows) |->
        IF rows[i].challenge_id = id /\ rows[i].user_id = u
        THEN [rows[i] EXCEPT !.failed = TRUE] ELSE rows[i]]

\* UPDATE users SET money_lost = money_lost + ?, current_streak = 0
LossStats(user, stakeAmount) ==
    [user EXCEPT !.money_lost = @ + stakeAmount, !.current_streak = 0]

\* players.filter(p => !p.failed)
ActivePlayers(players) == SelectSeq(players, LAMBDA p : ~p.failed)

\* the test with "at most one player left"
FailEndsAtMostOne(type, activePlayers) ==
    \/ type = "friend" /\ Len(activePlayers) <= 1
    \/ type \in {"royale", "group"} /\ Len(activePlayers) <= 1

\* the test that sends a fail to endChallengeWithWinner
FailEnds(type, activePlayers) ==
    \/ type = "friend" /\ Len(activePlayers) = 1
    \/ type \in {"royale", "group"} /\ Len(activePlayers) = 1

\* activePlayers[0].user_id
FirstUserId(activePlayers) ==
    IF activePlayers = <<>> THEN Null ELSE activePlayers[1].user_id

FailChallenge(id, u) ==
    /\ IF id \notin DOMAIN challenges
       THEN UNCHANGED <<users, transactions, challenges, challenge_players>>
       ELSE LET challenge == challenges[id]
                rows == SetFailed(challenge_players, id, u)
                lost == IF u \in DOMAIN users
                        THEN Store([users EXCEPT ![u] =
                                        LossStats(@, challenge.stake_amount)],
                                   Append(transactions,
                                          Tx(u, "loss", -challenge.stake_amount,
                                             id, Null)),
                                   challenges)
                        ELSE Store(users, transactions, challenges)
                players == PlayersOf(rows, id)
                activePlayers == ActivePlayers(players)
                final == IF FailEnds(challenge.type, activePlayers)
                         THEN endChallengeWithWinner(lost, id,
                                  FirstUserId(activePlayers), challenge, players)
                         ELSE lost
            IN  /\ challenge_players' = rows
                /\ users' = final.users
                /\ transactions' = final.transactions
                /\ challenges' = final.challenges
    /\ UNCHANGED inflight

----------------------------------------------------------------------------
(* Challenges: POST /api/challenges/:id/complete *)

\* UPDATE challenge_players SET completed = 1
\* WHERE challenge_id = ? AND user_id = ?
SetCompleted(rows, id, u) ==
    [i \in 1..Len(rows) |->
        IF rows[i].challenge_id = id /\ rows[i].user_id = u
        THEN [rows[i] EXCEPT !.completed = TRUE] ELSE rows[i]]

\* completedPlayers.length + failedPlayers.length === players.length
AllFinished(players) ==
    Len(SelectSeq(players, LAMBDA p : p.completed))
        + Len(SelectSeq(players, LAMBDA p : p.failed)) = Len(players)

CompleteChallenge(id, u) ==
    /\ IF id \notin DOMAIN challenges
       THEN UNCHANGED <<users, transactions, challenges, challenge_players>>
       ELSE LET challenge == challenges[id]
                rows == SetCompleted(challenge_players, id, u)
                players == PlayersOf(rows, id)
                st == Store(users, transactions, challenges)
            IN  /\ challenge_players' = rows
                /\ IF challenge.type = "solo"
                   THEN /\ users' = IF u \in DOMAIN users
                                     THEN [users EXCEPT ![u] =
                                             WinStats(@, 0, challenge.duration_minutes)]
                                     ELSE users
                        /\ challenges' =
                               [challenges EXCEPT ![id].status = "completed",
                                                  ![id].winner_id = u,
                                                  ![id].ended_at = "ts"]
                        /\ UNCHANGED transactions
                   ELSE LET final == IF challenge.type = "group"
                                        /\ AllFinished(players)
                                     THEN endGroupChallenge(st, id, challenge, players)
                                     ELSE st
                        IN  /\ users' = final.users
                            /\ transactions' = final.transactions
                            /\ challenges' = final.challenges
    /\ UNCHANGED inflight

----------------------------------------------------------------------------------------------------------------------------------------
(* The server: every request any caller may send.  The guards written in    *)
(* Next are the bounds of the model, not conditions of the code.            *)

\* no solo completion is issued for a user who has MaxSessions sessions
SessionsRoom(id, u) ==
    (id \in DOMAIN challenges /\ challenges[id].type = "solo" /\ u \in DOMAIN users)
        => users[u].total_sessions < MaxSessions

Next ==
    \/ \E u \in Registered, pi \in PaymentIds :
          Room /\ CanWait /\ ConfirmFundsBegin(u, pi) /\ Rest
    \/ \E r \in Waiting : ConfirmFundsResume(r) /\ Rest
    \/ \E u \in Registered, amountCents \in WithdrawAmounts :
          Room /\ CanWait /\ WithdrawBegin(u, amountCents) /\ Rest
    \/ \E r \in Waiting, ok \in BOOLEAN : WithdrawResume(r, ok) /\ Rest
    \/ \E id \in ChallengeIds, u \in UserIds, auth \in BOOLEAN, type \in Types,
          stake \in Stakes, duration \in Durations, maxPlayers \in MaxPlayersArgs :
          Room /\ CreateChallenge(id, u, auth, type, stake, duration, maxPlayers) /\ Rest
    \/ \E id \in ChallengeIds, u \in UserIds, auth \in BOOLEAN :
          Room /\ Len(challenge_players) < MaxRoster /\ JoinChallenge(id, u, auth) /\ Rest
    \/ \E id \in ChallengeIds, u \in UserIds : MarkReady(id, u) /\ Rest
    \/ \E id \in ChallengeIds, u \in UserIds : Room /\ FailChallenge(id, u) /\ Rest
    \/ \E id \in ChallengeIds, u \in UserIds :
          Room /\ SessionsRoom(id, u) /\ CompleteChallenge(id, u) /\ Rest

Spec == Init /\ [][Next]_vars

----------------------------------------------------------------------------
(* Two or three different players of one running challenge each report      *)
(* their failure once, in any order.  The challenge is running with every   *)
(* player ready; the player "c" has no account; "a" joined either with a    *)
(* token (deposit and stake on the ledger) or without one.                  *)

RaceUserIds == {"a", "b", "c"}

RaceTypes == {"friend", "royale", "group"}

RaceRosters ==
    {r \in UNION {[1..n -> RaceUserIds] : n \in 2..3} :
        \A i, j \in DOMAIN r : i # j => r[i] # r[j]}

RaceInit ==
    \E type \in RaceTypes, roster \in RaceRosters, escrowed \in BOOLEAN,
       id \in ChallengeIds :
        /\ users = [u \in Registered |-> NewUser]
        /\ transactions =
              IF escrowed /\ \E i \in DOMAIN roster : roster[i] = "a"
              THEN <<Tx("a", "deposit", 1000, Null, "pi1"),
                     Tx("a", "stake", -1000, id, Null)>>
              ELSE <<>>
        /\ challenges = (id :> [type |-> type, creator_id |-> roster[1],
                                stake_amount |-> 1000,
                                duration_minutes |-> IF type = "royale" THEN 0 ELSE 25,
                                max_players |-> Max(DefaultPlayers(type, 0), Len(roster)),
                                status |-> "active",
                                winner_id |-> Null,
                                started_at |-> "ts",
                                ended_at |-> Null])
        /\ challenge_players =
              [i \in 1..Len(roster) |-> [NewPlayer(id, roster[i]) EXCEPT !.ready = TRUE]]
        /\ inflight = EmptyBag
        /\ AtRest

\* the player u of challenge id has not reported a failure yet
NotYetFailed(id, u) ==
    \E i \in 1..Len(challenge_players) :
        /\ challenge_players[i].challenge_id = id
        /\ challenge_players[i].user_id = u
        /\ ~challenge_players[i].failed

RaceNext ==
    \E id \in ChallengeIds, u \in RaceUserIds :
        NotYetFailed(id, u) /\ FailChallenge(id, u) /\ Rest

SpecFailRace == RaceInit /\ [][RaceNext]_vars

----------------------------------------------------------------------------
(* The first server (src/server/index.js): the same challenge routes with   *)
(* no accounts and no wallet.  A user row is created the first time an id   *)
(* creates or joins a challenge; nothing is ever taken from or paid to a    *)
(* balance, only the statistics are kept.                                   *)

\* users rows whose total_sessions stops further fail and complete requests
MaxSessionsV1 == 2
\* challenge_players rows after which the model issues no further join
MaxRosterV1 == 3

UserIdsV1 == {"a", "b", "c"}

\* column defaults of the users table
NewUserV1 ==
    [total_sessions |-> 0, total_wins |-> 0, total_focus_minutes |-> 0,
     money_won |-> 0, money_lost |-> 0, current_streak |-> 0, best_streak |-> 0]

getOrCreateUser(us, userId) ==
    IF userId \in DOMAIN us THEN us ELSE (userId :> NewUserV1) @@ us

InitV1 ==
    /\ users = [u \in {} |-> NewUserV1]
    /\ transactions = <<>>
    /\ challenges = [id \in {} |-> Null]
    /\ challenge_players = <<>>
    /\ inflight = EmptyBag
    /\ AtRest

CreateChallengeV1(id, creatorId, type, stake, duration, maxPlayers) ==
    /\ id \notin DOMAIN challenges
    /\ users' = getOrCreateUser(users, creatorId)
    /\ challenges' = (id :> [type |-> type, creator_id |-> creatorId,
                             stake_amount |-> stake,
                             duration_minutes |-> IF type = "royale" THEN 0 ELSE duration,
                             max_players |-> DefaultPlayers(type, maxPlayers),
                             status |-> "pending",
                             winner_id |-> Null,
                             started_at |-> Null,
                             ended_at |-> Null]) @@ challenges
    /\ challenge_players' = Append(challenge_players, NewPlayer(id, creatorId))
    /\ UNCHANGED <<transactions, inflight>>

\* players.find(p => p.user_id === userId)
ExistingPlayer(players, userId) ==
    \E i \in 1..Len(players) : players[i].user_id = userId

\* UPDATE challenge_players SET paid = 1 WHERE challenge_id = ? AND user_id = ?
SetPaid(rows, id, u) ==
    [i \in 1..Len(rows) |->
        IF rows[i].challenge_id = id /\ rows[i].user_id = u
        THEN [rows[i] EXCEPT !.paid = TRUE] ELSE rows[i]]

JoinChallengeV1(id, userId) ==
    /\ IF id \notin DOMAIN challenges
       THEN UNCHANGED <<users, challenge_players>>
       ELSE LET challenge == challenges[id]
                players == PlayersOf(challenge_players, id)
            IN  IF ExistingPlayer(players, userId)
                THEN /\ challenge_players' = SetPaid(challenge_players, id, userId)
                     /\ UNCHANGED users
                ELSE IF Len(players) >= challenge.max_players
                THEN UNCHANGED <<users, challenge_players>>
                ELSE /\ users' = getOrCreateUser(users, userId)
                     /\ challenge_players' =
                            Append(challenge_players, NewPlayer(id, userId))
    /\ UNCHANGED <<transactions, challenges, inflight>>

\* SELECT ... WHERE challenge_id = ? AND paid = 1, players.filter(p => p.paid)
PaidPlayers(rows, id) ==
    SelectSeq(rows, LAMBDA p : p.challenge_id = id /\ p.paid)

\* minPlayers
MinPlayers(type) == IF type = "solo" THEN 1 ELSE 2

MarkReadyV1(id, userId) ==
    /\ id \in DOMAIN challenges
    /\ challenge_players' = SetReady(challenge_players, id, userId)
    /\ LET paidPlayers == PaidPlayers(challenge_players', id)
           allReady == \A i \in 1..Len(paidPlayers) : paidPlayers[i].ready
       IN  IF allReady /\ Len(paidPlayers) >= MinPlayers(challenges[id].type)
           THEN challenges' = [challenges EXCEPT ![id].status = "active",
                                                 ![id].started_at = "ts"]
           ELSE UNCHANGED challenges
    /\ UNCHANGED <<users, transactions, inflight>>

\* the statistics of a reported failure
LossStatsV1(user, stakeAmount) ==
    [user EXCEPT !.total_sessions = @ + 1,
                 !.money_lost = @ + stakeAmount,
                 !.current_streak = 0]

\* UPDATE users SET total_sessions = ..., money_lost = ..., current_streak = 0
\* WHERE id = ? (no row, no change)
RecordLossV1(us, u, stakeAmount) ==
    IF u \in DOMAIN us THEN [us EXCEPT ![u] = LossStatsV1(@, stakeAmount)] ELSE us

\* the statistics of the winner of a settled challenge
WinStatsV1(user, winnings) ==
    [user EXCEPT !.total_sessions = @ + 1,
                 !.total_wins = @ + 1,
                 !.money_won = @ + winnings,
                 !.current_streak = @ + 1,
                 !.best_streak = Max(@, user.current_streak + 1)]

\* UPDATE users SET total_sessions = ..., total_wins = ..., money_won = ...
\* WHERE id = ? (no row, no change)
RecordWinV1(us, u, winnings) ==
    IF u \in DOMAIN us THEN [us EXCEPT ![u] = WinStatsV1(@, winnings)] ELSE us

\* shouldEnd of the fail handler
ShouldEnd(type, activePlayers) ==
    \/ type = "solo"
    \/ type \in {"royale", "group"} /\ Len(activePlayers) <= 1
    \/ type = "friend"

\* winnerId of the fail handler: activePlayers[0]?.user_id || null
WinnerIdV1(type, activePlayers) ==
    IF type = "solo" THEN Null ELSE FirstUserId(activePlayers)

FailChallengeV1(id, userId) ==
    /\ IF id \notin DOMAIN challenges
       THEN UNCHANGED <<users, challenges, challenge_players>>
       ELSE LET challenge == challenges[id]
                rows == SetFailed(challenge_players, id, userId)
                players == PaidPlayers(rows, id)
                activePlayers == ActivePlayers(players)
                lost == RecordLossV1(users, userId, challenge.stake_amount)
                winnerId == WinnerIdV1(challenge.type, activePlayers)
                fee == getPlatformFee(challenge.stake_amount)
                base == Round(challenge.stake_amount * Len(players) * (100 - fee), 100)
                winnings == IF winnerId \in DOMAIN lost
                            THEN base + Round(base
                                     * getStreakBonus(lost[winnerId].current_streak), 100)
                            ELSE base
            IN  /\ challenge_players' = rows
                /\ IF ShouldEnd(challenge.type, activePlayers)
                   THEN /\ challenges' =
                               [challenges EXCEPT ![id].status = "completed",
                                                  ![id].winner_id = winnerId,
                                                  ![id].ended_at = "ts"]
                        /\ users' = IF winnerId # Null
                                     THEN RecordWinV1(lost, winnerId, winnings)
                                     ELSE lost
                   ELSE /\ UNCHANGED challenges
                        /\ users' = lost
    /\ UNCHANGED <<transactions, inflight>>

\* the statistics of a player of a draw
DrawStatsV1(user) ==
    [user EXCEPT !.total_sessions = @ + 1,
                 !.current_streak = @ + 1,
                 !.best_streak = Max(@, user.current_streak + 1)]

\* UPDATE users SET total_sessions = ..., current_streak = ... WHERE id = ?
RecordDrawV1(us, u) ==
    IF u \in DOMAIN us THEN [us EXCEPT ![u] = DrawStatsV1(@)] ELSE us

\* UPDATE users SET total_focus_minutes = total_focus_minutes + ? WHERE id = ?
RecordFocusV1(us, u, minutes) ==
    IF u \in DOMAIN us
    THEN [us EXCEPT ![u].total_focus_minutes = @ + minutes] ELSE us

RECURSIVE ForEachPlayerV1(_, _, _, _)
\* for (const winner of winners) / for (const player of activePlayers):
\* UPDATE users SET ... WHERE id = player.user_id
ForEachPlayerV1(us, players, draw, winnings) ==
    IF players = <<>> THEN us
    ELSE ForEachPlayerV1(
             IF draw THEN RecordDrawV1(us, Head(players).user_id)
             ELSE RecordWinV1(us, Head(players).user_id, winnings),
             Tail(players), draw, winnings)

CompleteChallengeV1(id, userId) ==
    /\ IF id \notin DOMAIN challenges
       THEN UNCHANGED <<users, challenges, challenge_players>>
       ELSE LET challenge == challenges[id]
                rows == SetCompleted(challenge_players, id, userId)
                players == PaidPlayers(rows, id)
                focused == IF challenge.duration_minutes # 0
                           THEN RecordFocusV1(users, userId,
                                              challenge.duration_minutes)
                           ELSE users
                activePlayers == ActivePlayers(players)
                allCompleted == \A i \in 1..Len(activePlayers) :
                                    activePlayers[i].completed
                failedPlayers == SelectSeq(players, LAMBDA p : p.failed)
                fee == getPlatformFee(challenge.stake_amount)
                loserPot == challenge.stake_amount * Len(failedPlayers)
                \* Math.round((loserPot * (100 - fee) / 100) / winners.length);
                \* with no winner the loop that uses it runs zero times
                winningsPerPerson ==
                    IF activePlayers = <<>> THEN 0
                    ELSE Round(loserPot * (100 - fee), 100 * Len(activePlayers))
            IN  /\ challenge_players' = rows
                /\ IF allCompleted /\ challenge.type # "royale"
                   THEN IF challenge.type = "solo"
                        THEN /\ challenges' =
                                    [challenges EXCEPT ![id].status = "completed",
                                                       ![id].winner_id = userId,
                                                       ![id].ended_at = "ts"]
                             /\ users' = RecordWinV1(focused, userId, 0)
                        ELSE IF challenge.type = "group" /\ Len(failedPlayers) > 0
                        THEN /\ challenges' =
                                    [challenges EXCEPT ![id].status = "completed",
                                                       ![id].ended_at = "ts"]
                             /\ users' = ForEachPlayerV1(focused, activePlayers,
                                             FALSE, winningsPerPerson)
                        ELSE /\ challenges' =
                                    [challenges EXCEPT ![id].status = "completed",
                                                       ![id].winner_id = "draw",
                                                       ![id].ended_at = "ts"]
                             /\ users' = ForEachPlayerV1(focused, activePlayers,
                                             TRUE, 0)
                   ELSE /\ UNCHANGED challenges
                        /\ users' = focused
    /\ UNCHANGED <<transactions, inflight>>

\* no further fail or complete once some user has MaxSessionsV1 sessions or
\* as many durations of focus
SessionsRoomV1 ==
    \A u \in DOMAIN users :
        /\ users[u].total_sessions < MaxSessionsV1
        /\ users[u].total_focus_minutes < MaxSessionsV1 * 25

NextV1 ==
    \/ \E id \in ChallengeIds, creatorId \in UserIdsV1, type \in Types,
          stake \in Stakes, duration \in Durations, maxPlayers \in MaxPlayersArgs :
          CreateChallengeV1(id, creatorId, type, stake, duration, maxPlayers) /\ Rest
    \/ \E id \in ChallengeIds, userId \in UserIdsV1 :
          Len(challenge_players) < MaxRosterV1 /\ JoinChallengeV1(id, userId) /\ Rest
    \/ \E id \in ChallengeIds, userId \in UserIdsV1 : MarkReadyV1(id, userId) /\ Rest
    \/ \E id \in ChallengeIds, userId \in UserIdsV1 :
          SessionsRoomV1 /\ FailChallengeV1(id, userId) /\ Rest
    \/ \E id \in ChallengeIds, userId \in UserIdsV1 :
          SessionsRoomV1 /\ CompleteChallengeV1(id, userId) /\ Rest

SpecV1 == InitV1 /\ [][NextV1]_vars

----------------------------------------------------------------------------
(* Settlement arithmetic.  A duel or a royale is running; every player has  *)
(* an account, deposited the stake and had it escrowed at create or join,   *)
(* and comes with the same streak of earlier solo completions.  The players *)
(* report their failures one after the other, each at most once.            *)

\* the largest roster of a royale
MaxPayoutPlayers == 5

PlayerNames == <<"a", "b", "c", "d", "e", "f", "g", "h">>

\* stake_amount in cents, on both sides of the fee tier
PayoutStakes == {1, 50, 1000, 1500, 9999, 10000, 10001}

\* current_streak of the players when the challenge starts
PayoutStreaks == {0, 2, 3, 4, 5, 6, 7, 8}

\* a user after `streak` solo completions of 25 minutes in a row
UserWithStreak(streak) ==
    [NewUser EXCEPT !.total_sessions = streak,
                    !.total_wins = streak,
                    !.total_focus_minutes = 25 * streak,
                    !.current_streak = streak,
                    !.best_streak = streak]

\* the deposit and the stake of each of the first n players, in roster order
RECURSIVE EscrowLog(_, _, _)
EscrowLog(n, id, stake) ==
    IF n = 0 THEN <<>>
    ELSE EscrowLog(n - 1, id, stake)
            \o <<Tx(PlayerNames[n], "deposit", stake, Null, PlayerNames[n]),
                 Tx(PlayerNames[n], "stake", -stake, id, Null)>>

PayoutInit ==
    \E type \in {"friend", "royale"}, n \in 2..MaxPayoutPlayers,
       stake \in PayoutStakes, streak \in PayoutStreaks, id \in ChallengeIds :
        /\ type = "friend" => n = 2
        /\ users = [u \in {PlayerNames[i] : i \in 1..n} |-> UserWithStreak(streak)]
        /\ transactions = EscrowLog(n, id, stake)
        /\ challenges = (id :> [type |-> type, creator_id |-> PlayerNames[1],
                                stake_amount |-> stake,
                                duration_minutes |-> IF type = "royale" THEN 0 ELSE 25,
                                max_players |-> Max(DefaultPlayers(type, 0), n),
                                status |-> "active",
                                winner_id |-> Null,
                                started_at |-> "ts",
                                ended_at |-> Null])
        /\ challenge_players =
              [i \in 1..n |-> [NewPlayer(id, PlayerNames[i]) EXCEPT !.ready = TRUE]]
        /\ inflight = EmptyBag
        /\ AtRest

PayoutNext ==
    \E id \in ChallengeIds, u \in DOMAIN users :
        NotYetFailed(id, u) /\ FailChallenge(id, u) /\ Rest

SpecPayout == PayoutInit /\ [][PayoutNext]_vars

----------------------------------------------------------------------------
(* Request bodies of POST /api/challenges.  The stake of the body may be    *)
(* negative or zero, and the duration may be 0 (or null, which the store    *)
(* keeps just the same).  "a" has deposited one stake, "b" has nothing.     *)

CreateStakes == {-500, 0, 1000}

CreateDurations == {0, 25}

CreateInit ==
    /\ users = [u \in Registered |->
                   IF u = "a" THEN [NewUser EXCEPT !.balance = 1000] ELSE NewUser]
    /\ transactions = <<Tx("a", "deposit", 1000, Null, "pi1")>>
    /\ challenges = [id \in {} |-> Null]
    /\ challenge_players = <<>>
    /\ inflight = EmptyBag
    /\ AtRest

CreateNext ==
    \/ \E id \in ChallengeIds, u \in UserIds, auth \in BOOLEAN, type \in Types,
          stake \in CreateStakes, duration \in CreateDurations,
          maxPlayers \in MaxPlayersArgs :
          Room /\ CreateChallenge(id, u, auth, type, stake, duration, maxPlayers) /\ Rest
    \/ \E id \in ChallengeIds, u \in UserIds, auth \in BOOLEAN :
          Room /\ Len(challenge_players) < MaxRoster /\ JoinChallenge(id, u, auth) /\ Rest
    \/ \E id \in ChallengeIds, u \in UserIds : MarkReady(id, u) /\ Rest

SpecCreate == CreateInit /\ [][CreateNext]_vars

----------------------------------------------------------------------------
(* Rosters.  Create takes maxPlayers from the request body as it comes:     *)
(* absent (0 here), a head count, or a number that is no head count.        *)

MaxJoinRows == 4

RosterMaxPlayersArgs == {-1, 0, 2}

RosterNext ==
    \/ \E id \in ChallengeIds, u \in UserIds, auth \in BOOLEAN, type \in Types,
          stake \in Stakes, duration \in Durations,
          maxPlayers \in RosterMaxPlayersArgs :
          Room /\ CreateChallenge(id, u, auth, type, stake, duration, maxPlayers) /\ Rest
    \/ \E id \in ChallengeIds, u \in UserIds, auth \in BOOLEAN :
          Room /\ Len(challenge_players) < MaxJoinRows /\ JoinChallenge(id, u, auth) /\ Rest
    \/ \E id \in ChallengeIds, u \in UserIds : MarkReady(id, u) /\ Rest

SpecRoster == CreateInit /\ [][RosterNext]_vars

----------------------------------------------------------------------------
(* Store failures.  Every statement of a handler is run on its own; when    *)
(* one throws (disk full, I/O error, database locked) the handler's catch   *)
(* answers 500 and the statements already run stay written.  `written` is   *)
(* the number of statements that ran before the one that threw.             *)

\* join with a token: UPDATE users SET balance, INSERT INTO transactions,
\* INSERT INTO challenge_players, the statement after the first `written`
\* throwing
JoinChallengeInterrupted(id, u, auth, written) ==
    /\ ReqUser(u, auth)
    /\ id \in DOMAIN challenges
    /\ LET challenge == challenges[id]
           players == PlayersOf(challenge_players, id)
       IN  /\ challenge.status = "pending"
           /\ Len(players) < challenge.max_players
           /\ ~(users[u].balance < challenge.stake_amount)
           /\ users' = IF written >= 1
                       THEN AddBalance(users, u, -challenge.stake_amount)
                       ELSE users
           /\ transactions' = IF written >= 2
                              THEN Append(transactions,
                                       Tx(u, "stake", -challenge.stake_amount, id, Null))
                              ELSE transactions
    /\ UNCHANGED <<challenges, challenge_players, inflight>>

\* withdraw after the transfer was made: UPDATE users SET balance, INSERT
\* INTO transactions, the statement after the first `written` throwing
WithdrawResumeInterrupted(r, written) ==
    /\ r.kind = "withdraw"
    /\ inflight' = inflight (-) SetToBag({r})
    /\ users' = IF written >= 1
                THEN [users EXCEPT ![r.user_id].balance =
                         DeductedBalance(@, r.balance, r.amount)]
                ELSE users
    /\ UNCHANGED <<transactions, challenges, challenge_players>>

FaultsNext ==
    \/ \E u \in Registered, pi \in PaymentIds :
          Room /\ CanWait /\ ConfirmFundsBegin(u, pi) /\ Rest
    \/ \E r \in Waiting : ConfirmFundsResume(r) /\ Rest
    \/ \E u \in Registered, amountCents \in WithdrawAmounts :
          Room /\ CanWait /\ WithdrawBegin(u, amountCents) /\ Rest
    \/ \E r \in Waiting, ok \in BOOLEAN : WithdrawResume(r, ok) /\ Rest
    \/ \E r \in Waiting, written \in 0..1 : WithdrawResumeInterrupted(r, written) /\ Rest
    \/ \E id \in ChallengeIds, u \in UserIds, auth \in BOOLEAN, type \in Types,
          stake \in Stakes, duration \in Durations, maxPlayers \in MaxPlayersArgs :
          Room /\ CreateChallenge(id, u, auth, type, stake, duration, maxPlayers) /\ Rest
    \/ \E id \in ChallengeIds, u \in UserIds, auth \in BOOLEAN :
          Room /\ Len(challenge_players) < MaxRoster /\ JoinChallenge(id, u, auth) /\ Rest
    \/ \E id \in ChallengeIds, u \in UserIds, auth \in BOOLEAN, written \in 0..2 :
          Room /\ JoinChallengeInterrupted(id, u, auth, written) /\ Rest

SpecFaults == Init /\ [][FaultsNext]_vars

----------------------------------------------------------------------------
(* The desktop monitor (src/unnamed/part_002).  The main process keeps      *)
(* sessionActive, sessionData and screenshotInterval in module variables.   *)
(* start-session arms an interval timer; each tick runs an async callback   *)
(* that awaits the screenshot and its analysis and then counts a            *)
(* distraction on whatever sessionData is current when it resumes.          *)

\* start-session calls issued by the model
MaxStarts == 3
\* interval callbacks that may be suspended at an await at the same time
MaxCallbacks == 3
\* screenshots pushed to sessionData.screenshots by the model
MaxScreenshots == 4

\* what the awaits of a callback bring back: no screenshot, or a screenshot
\* analysed as focused or as distracted
Outcomes == {"none", "focused", "distracted"}

\* sessionData = { stake: 0, startTime: null, screenshots: [],
\* distractionCount: 0 }
NoSessionData == [distractionCount |-> 0, screenshots |-> 0]

\* ipcMain.handle('start-session'): the handle setInterval returns is kept
\* in screenshotInterval, whatever was there before
StartSession ==
    /\ sessionActive' = TRUE
    /\ sessionData' = NoSessionData
    /\ LET handle == session + 1
       IN  /\ timers' = timers \cup {handle}
           /\ screenshotInterval' = handle
    /\ session' = session + 1
    /\ detected' = 0
    /\ sent' = <<>>
    /\ UNCHANGED callbacks

\* the timers left after endSession: clearInterval(screenshotInterval) if set
ClearedTimers == IF screenshotInterval # 0 THEN timers \ {screenshotInterval} ELSE timers

\* ipcMain.handle('end-session') -> endSession(won); the result goes to the
\* renderer and is not kept
EndSessionRequest(won) ==
    /\ sessionActive' = FALSE
    /\ timers' = ClearedTimers
    /\ screenshotInterval' = 0
    /\ sessionData' = NoSessionData
    /\ sent' = <<>>
    /\ UNCHANGED <<callbacks, session, detected>>

\* the interval fires: if (!sessionActive) return; otherwise the callback
\* runs up to `await takeScreenshot()`
Tick(t) ==
    /\ t \in timers
    /\ callbacks' = IF sessionActive
                    THEN callbacks (+) SetToBag({[timer |-> t, session |-> session]})
                    ELSE callbacks
    /\ sent' = <<>>
    /\ UNCHANGED <<sessionActive, sessionData, screenshotInterval, timers,
                   session, detected>>

\* sessionData.distractionCount >= 3
Strikes(count) == count >= 3

\* the callback resumes after `await analyzeScreenshot(screenshot)` (or with
\* no screenshot): push, send screenshot-taken, count the distraction, and
\* at three send session-failed and endSession(false)
ResumeCallback(cb, outcome) ==
    /\ cb \in BagToSet(callbacks)
    /\ callbacks' = callbacks (-) SetToBag({cb})
    /\ UNCHANGED session
    /\ IF outcome = "none"
       THEN /\ sent' = <<>>
            /\ UNCHANGED <<sessionActive, sessionData, screenshotInterval,
                           timers, detected>>
       ELSE LET pushed == [sessionData EXCEPT !.screenshots = @ + 1]
                counted == [pushed EXCEPT !.distractionCount = @ + 1]
            IN  IF outcome = "focused"
                THEN /\ sessionData' = pushed
                     /\ sent' = <<"screenshot-taken">>
                     /\ UNCHANGED <<sessionActive, screenshotInterval, timers,
                                    detected>>
                ELSE /\ detected' = IF cb.session = session
                                    THEN detected + 1 ELSE detected
                     /\ IF Strikes(counted.distractionCount)
                        THEN /\ sent' = <<"screenshot-taken", "session-failed">>
                             /\ sessionActive' = FALSE
                             /\ timers' = ClearedTimers
                             /\ screenshotInterval' = 0
                             /\ sessionData' = NoSessionData
                        ELSE /\ sent' = <<"screenshot-taken">>
                             /\ sessionData' = counted
                             /\ UNCHANGED <<sessionActive, screenshotInterval,
                                            timers>>

MonitorNext ==
    \/ session < MaxStarts /\ StartSession /\ UNCHANGED <<serverVars, socketVars, data>>
    \/ \E won \in BOOLEAN : EndSessionRequest(won) /\ UNCHANGED <<serverVars, socketVars, data>>
    \/ \E t \in timers :
          BagCardinality(callbacks) < MaxCallbacks /\ Tick(t) /\ UNCHANGED <<serverVars, socketVars, data>>
    \/ \E cb \in BagToSet(callbacks), outcome \in Outcomes :
          sessionData.screenshots < MaxScreenshots /\ ResumeCallback(cb, outcome) /\ UNCHANGED <<serverVars, socketVars, data>>

SpecMonitor == Init /\ [][MonitorNext]_vars

----------------------------------------------------------------------------
(* Socket.io events of the wallet server.  A handler emits to the room of   *)
(* the challenge between its store statements; an event is kept with the    *)
(* store as it was when io.emit ran (`stored`).  A socket enters a room     *)
(* with join:challenge and then receives what is emitted to the room.  Both *)
(* users have deposited one stake and come with the same streak.            *)

\* transaction rows after which the model issues no further request
MaxEventTx == 5
\* events a socket receives in the model
MaxReceived == 2

EventStreaks == {0, 3}

\* io.to(challengeId).emit(name, {challengeId, winnerId | survivors,
\* winnings | perSurvivor}), in cents, and the store at that moment
Event(name, id, winnerId, survivors, winnings, st) ==
    [name |-> name, challengeId |-> id, winnerId |-> winnerId,
     survivors |-> survivors, winnings |-> winnings,
     stored |-> [status |-> IF id \in DOMAIN st.challenges
                            THEN st.challenges[id].status ELSE Null,
                 users |-> st.users,
                 transactions |-> st.transactions]]

EventsInit ==
    \E streak \in EventStreaks :
        /\ users = [u \in Registered |->
                       [UserWithStreak(streak) EXCEPT !.balance = 1000]]
        /\ transactions = <<Tx("a", "deposit", 1000, Null, "a"),
                            Tx("b", "deposit", 1000, Null, "b")>>
        /\ challenges = [id \in {} |-> Null]
        /\ challenge_players = <<>>
        /\ inflight = EmptyBag
        /\ AtRest

\* every socket of the room receives the events, in the order emitted
Deliver(id, events) ==
    /\ emitted' = events
    /\ received' = [s \in Sockets |->
                       IF s \in rooms[id]
                       THEN received[s] \o [i \in 1..Len(events) |-> events[i].name]
                       ELSE received[s]]
    /\ UNCHANGED rooms

\* socket.on('join:challenge', (challengeId) => { socket.join(challengeId) })
JoinRoom(s, id) ==
    /\ rooms' = [rooms EXCEPT ![id] = @ \cup {s}]
    /\ UNCHANGED <<emitted, received>>

\* socket.on('leave:challenge', (challengeId) => { socket.leave(challengeId) })
LeaveRoom(s, id) ==
    /\ rooms' = [rooms EXCEPT ![id] = @ \ {s}]
    /\ UNCHANGED <<emitted, received>>

\* create emits nothing
CreateEvents == <<>>

\* join: player:joined after the roster row is inserted; nothing on a 4xx
JoinEvents(id) ==
    IF challenge_players' # challenge_players
    THEN <<Event("player:joined", id, Null, <<>>, 0,
                 Store(users', transactions', challenges'))>>
    ELSE <<>>

\* the store when challenge:start is emitted, before the status is written
StartedStoreBeforeUpdate == Store(users, transactions, challenges)

\* the store when challenge:start is emitted: the UPDATE of the status has run
StartedStore == Store(users', transactions', challenges')

\* ready: player:ready before the status is written, challenge:start after
ReadyEvents(id, u) ==
    LET players == PlayersOf(SetReady(challenge_players, id, u), id)
    IN  <<Event("player:ready", id, Null, <<>>, 0,
                Store(users, transactions, challenges))>>
        \o IF AllReady(players) /\ id \in DOMAIN challenges
           THEN <<Event("challenge:start", id, Null, <<>>, 0, StartedStore)>>
           ELSE <<>>

\* the store when player:failed is emitted: the loss is written, the
\* settlement is not
LostStore(id, u) ==
    IF u \in DOMAIN users
    THEN Store([users EXCEPT ![u] = LossStats(@, challenges[id].stake_amount)],
               Append(transactions,
                      Tx(u, "loss", -challenges[id].stake_amount, id, Null)),
               challenges)
    ELSE Store(users, transactions, challenges)

\* winnings: winnings / 100 of endChallengeWithWinner's challenge:end
EmittedWinnings(challenge, players) == Winnings(challenge, players)

\* fail: player:failed, then challenge:end from endChallengeWithWinner
FailEvents(id, u) ==
    IF id \notin DOMAIN challenges THEN <<>>
    ELSE LET challenge == challenges[id]
             players == PlayersOf(SetFailed(challenge_players, id, u), id)
             activePlayers == ActivePlayers(players)
         IN  <<Event("player:failed", id, Null, <<>>, 0, LostStore(id, u))>>
             \o IF FailEnds(challenge.type, activePlayers)
                THEN <<Event("challenge:end", id, FirstUserId(activePlayers), <<>>,
                             EmittedWinnings(challenge, players),
                             Store(users', transactions', challenges'))>>
                ELSE <<>>

\* complete: challenge:end from endGroupChallenge when a survivor is paid
CompleteEvents(id, u) ==
    IF id \notin DOMAIN challenges THEN <<>>
    ELSE LET challenge == challenges[id]
             players == PlayersOf(SetCompleted(challenge_players, id, u), id)
             survivors == SelectSeq(players, LAMBDA p : p.completed /\ ~p.failed)
             losers == SelectSeq(players, LAMBDA p : p.failed)
             distributablePot ==
                 Round(Len(losers) * challenge.stake_amount
                         * (100 - getPlatformFee(challenge.stake_amount)), 100)
         IN  IF challenge.type = "group" /\ AllFinished(players) /\ Len(survivors) > 0
             THEN <<Event("challenge:end", id, Null,
                          [i \in 1..Len(survivors) |-> survivors[i].user_id],
                          Floor(distributablePot, Len(survivors)),
                          Store(users', transactions', challenges'))>>
             ELSE <<>>

\* the sockets of the room can take the events of one more request
ReceiveRoom(id) == \A s \in rooms[id] : Len(received[s]) + 2 <= MaxReceived

EventRoom == Len(transactions) < MaxEventTx

EventsNext ==
    \/ \E id \in ChallengeIds, u \in UserIds, auth \in BOOLEAN, type \in Types,
          stake \in Stakes, duration \in Durations :
          /\ CreateChallenge(id, u, auth, type, stake, duration, 0)
          /\ Deliver(id, CreateEvents) /\ UNCHANGED <<monitorVars, data>>
    \/ \E id \in ChallengeIds, u \in UserIds, auth \in BOOLEAN :
          /\ Len(challenge_players) < MaxRoster /\ ReceiveRoom(id)
          /\ JoinChallenge(id, u, auth)
          /\ Deliver(id, JoinEvents(id)) /\ UNCHANGED <<monitorVars, data>>
    \/ \E id \in ChallengeIds, u \in UserIds :
          /\ ReceiveRoom(id)
          /\ MarkReady(id, u)
          /\ Deliver(id, ReadyEvents(id, u)) /\ UNCHANGED <<monitorVars, data>>
    \/ \E id \in ChallengeIds, u \in UserIds :
          /\ EventRoom /\ ReceiveRoom(id)
          /\ FailChallenge(id, u)
          /\ Deliver(id, FailEvents(id, u)) /\ UNCHANGED <<monitorVars, data>>
    \/ \E id \in ChallengeIds, u \in UserIds :
          /\ EventRoom /\ ReceiveRoom(id) /\ SessionsRoom(id, u)
          /\ CompleteChallenge(id, u)
          /\ Deliver(id, CompleteEvents(id, u)) /\ UNCHANGED <<monitorVars, data>>
    \/ \E s \in Sockets, id \in ChallengeIds :
          s \notin rooms[id] /\ JoinRoom(s, id) /\ UNCHANGED <<serverVars, monitorVars, data>>
    \/ \E s \in Sockets, id \in ChallengeIds :
          s \in rooms[id] /\ LeaveRoom(s, id) /\ UNCHANGED <<serverVars, monitorVars, data>>

SpecEvents == EventsInit /\ [][EventsNext]_vars

----------------------------------------------------------------------------
(* The JSON-file store (src/unnamed/part_001, lines 1082-1361): a wrapper   *)
(* with the prepare/run/get interface that recognises a statement by        *)
(* fragments of its text and takes its values from the parameter list by    *)
(* position.  The statements of the engine are run on the relational store  *)
(* (users, transactions, challenges) and on `data` side by side.            *)

\* wins per user up to which the model issues statistics statements
MaxStatWins == 1
\* transaction rows inserted by the model
MaxJsonTx == 2

\* a JavaScript value: a string, a number, null or undefined
Str(x) == [t |-> "string", s |-> x, n |-> 0]
Num(k) == [t |-> "number", s |-> "", n |-> k]
JsNull == [t |-> "null", s |-> "", n |-> 0]
Undefined == [t |-> "undefined", s |-> "", n |-> 0]

\* params[i] of a JavaScript array (i from 0)
Param(params, i) == IF i + 1 <= Len(params) THEN params[i + 1] ELSE Undefined

\* x || null
OrNull(x) ==
    IF x.t \in {"null", "undefined"} \/ x = Str("") \/ x = Num(0) THEN JsNull ELSE x

\* the fragments executeSQL looks for that the lower-cased text of each
\* statement of the engine contains
Fragments(sql) ==
    CASE sql = "credit" -> {"update users set", "balance = balance +"}
      [] sql = "debit" -> {"update users set", "balance = balance -"}
      [] sql = "winStats" -> {"update users set", "total_wins"}
      [] sql = "lossStats" -> {"update users set", "money_lost"}
      [] sql = "insertTransaction" -> {"insert into transactions"}
      [] sql = "selectPayment" -> {"select", "from transactions"}
      [] sql = "insertChallenge" -> {"insert into challenges"}
      [] sql = "active" -> {"update challenges set", "status = 'active'"}
      [] sql = "completed" -> {"update challenges set", "status = 'completed'"}
      [] sql = "completedNoWinner" -> {"update challenges set", "status = 'completed'"}

Includes(sql, fragment) == fragment \in Fragments(sql)

\* executeSQL(sql, params) in mode 'run': the data afterwards
executeSQL(d, sql, params) ==
    IF Includes(sql, "update users set")
    THEN LET userId == Param(params, Len(params) - 1).s
         IN  IF userId \notin DOMAIN d.users THEN d
             ELSE LET user == d.users[userId]
                      updated ==
                          IF Includes(sql, "balance = balance +")
                          THEN [user EXCEPT !.balance = @ + Param(params, 0).n]
                          ELSE IF Includes(sql, "balance = balance -")
                          THEN [user EXCEPT !.balance = @ - Param(params, 0).n]
                          ELSE IF Includes(sql, "total_wins")
                          THEN IF Includes(sql, "money_lost")
                               THEN [user EXCEPT !.money_lost = @ + Param(params, 0).n,
                                                 !.current_streak = 0]
                               ELSE [user EXCEPT !.total_wins = @ + 1,
                                                 !.total_sessions = @ + 1,
                                                 !.current_streak = @ + 1,
                                                 !.best_streak =
                                                     Max(@, user.current_streak + 1)]
                          ELSE user
                  IN  [d EXCEPT !.users[userId] = updated]
    ELSE IF Includes(sql, "insert into transactions")
    THEN [d EXCEPT !.transactions = Append(@,
             [user_id |-> Param(params, 0),
              type |-> Param(params, 1),
              amount |-> Param(params, 2),
              description |-> Param(params, 3),
              challenge_id |-> OrNull(Param(params, 4)),
              stripe_payment_id |-> OrNull(Param(params, 4))])]
    ELSE IF Includes(sql, "insert into challenges")
    THEN [d EXCEPT !.challenges = (Param(params, 0).s :>
             [type |-> Param(params, 1).s,
              creator_id |-> Param(params, 2).s,
              stake_amount |-> Param(params, 3).n,
              duration_minutes |-> Param(params, 4).n,
              max_players |-> Param(params, 5).n,
              status |-> "pending",
              winner_id |-> Null,
              started_at |-> Null,
              ended_at |-> Null]) @@ @]
    ELSE IF Includes(sql, "update challenges set")
    THEN LET id == Param(params, Len(params) - 1).s
         IN  IF id \notin DOMAIN d.challenges THEN d
             ELSE IF Includes(sql, "status = 'active'")
             THEN [d EXCEPT !.challenges[id].status = "active",
                            !.challenges[id].started_at = Param(params, 0).s]
             ELSE IF Includes(sql, "status = 'completed'")
             THEN [d EXCEPT !.challenges[id].status = "completed",
                            !.challenges[id].winner_id = Param(params, 0).s,
                            !.challenges[id].ended_at = Param(params, 1).s]
             ELSE d
    ELSE d

\* executeSQL(sql, params, 'get') of SELECT id FROM transactions WHERE
\* stripe_payment_id = ?: the rows whose user_id is the parameter, as an array
SelectTransactions(d, params) ==
    SelectSeq(d.transactions, LAMBDA t : t.user_id = Param(params, 0))

\* if (existing): an array is truthy, whatever its length
Truthy(rows) == TRUE

\* a row of the relational transactions table as JavaScript values (the
\* description is the literal of the statement, here "description")
JsRow(t) ==
    [user_id |-> Str(t.user_id), type |-> Str(t.type), amount |-> Num(t.amount),
     description |-> Str("description"),
     challenge_id |-> IF t.challenge_id = Null THEN JsNull ELSE Str(t.challenge_id),
     stripe_payment_id |->
         IF t.stripe_payment_id = Null THEN JsNull ELSE Str(t.stripe_payment_id)]

\* one signed-up pair of users in both stores
JsonInit ==
    /\ users = [u \in Registered |-> NewUser]
    /\ transactions = <<>>
    /\ challenges = [id \in {} |-> Null]
    /\ challenge_players = <<>>
    /\ inflight = EmptyBag
    /\ SocketsInit /\ MonitorInit
    /\ data = [users |-> [u \in Registered |-> NewUser],
               challenges |-> [id \in {} |-> Null],
               transactions |-> <<>>]

JsonRest == UNCHANGED <<challenge_players, inflight, socketVars, monitorVars>>

\* UPDATE users SET balance = balance + ? WHERE id = ?
CreditStatement(u, amount) ==
    /\ users' = AddBalance(users, u, amount)
    /\ data' = executeSQL(data, "credit", <<Num(amount), Str(u)>>)
    /\ UNCHANGED <<transactions, challenges>>

\* UPDATE users SET balance = balance - ? WHERE id = ?
DebitStatement(u, amount) ==
    /\ users' = AddBalance(users, u, -amount)
    /\ data' = executeSQL(data, "debit", <<Num(amount), Str(u)>>)
    /\ UNCHANGED <<transactions, challenges>>

\* INSERT INTO transactions (user_id, type, amount, description,
\* challenge_id | stripe_payment_id) VALUES (?, '<type>', ?, '...', ?)
InsertTransactionStatement(u, type, amount, ch, pay) ==
    /\ transactions' = Append(transactions, Tx(u, type, amount, ch, pay))
    /\ data' = executeSQL(data, "insertTransaction",
                   <<Str(u), Num(amount), Str(IF ch = Null THEN pay ELSE ch)>>)
    /\ UNCHANGED <<users, challenges>>

\* UPDATE users SET total_wins = total_wins + 1, ..., money_won = money_won + ?,
\* ... WHERE id = ?  (params: totalWinnings, date, winnerId)
WinStatsStatement(u, won) ==
    /\ users' = [users EXCEPT ![u] = WinStats(@, won, 0)]
    /\ data' = executeSQL(data, "winStats", <<Num(won), Str("date"), Str(u)>>)
    /\ UNCHANGED <<transactions, challenges>>

\* UPDATE users SET money_lost = money_lost + ?, current_streak = 0 WHERE id = ?
LossStatsStatement(u, stakeAmount) ==
    /\ users' = [users EXCEPT ![u] = LossStats(@, stakeAmount)]
    /\ data' = executeSQL(data, "lossStats", <<Num(stakeAmount), Str(u)>>)
    /\ UNCHANGED <<transactions, challenges>>

\* INSERT INTO challenges (id, type, creator_id, stake_amount,
\* duration_minutes, max_players) VALUES (?, ?, ?, ?, ?, ?)
InsertChallengeStatement(id, type, u, stake, duration, players) ==
    /\ id \notin DOMAIN challenges
    /\ challenges' = (id :> [type |-> type, creator_id |-> u,
                             stake_amount |-> stake,
                             duration_minutes |-> duration,
                             max_players |-> players,
                             status |-> "pending",
                             winner_id |-> Null,
                             started_at |-> Null,
                             ended_at |-> Null]) @@ challenges
    /\ data' = executeSQL(data, "insertChallenge",
                   <<Str(id), Str(type), Str(u), Num(stake), Num(duration),
                     Num(players)>>)
    /\ UNCHANGED <<users, transactions>>

\* UPDATE challenges SET status = 'active', started_at = ? WHERE id = ?
ActiveStatement(id) ==
    /\ id \in DOMAIN challenges
    /\ challenges' = [challenges EXCEPT ![id].status = "active",
                                        ![id].started_at = "ts"]
    /\ data' = executeSQL(data, "active", <<Str("ts"), Str(id)>>)
    /\ UNCHANGED <<users, transactions>>

\* UPDATE challenges SET status = 'completed', winner_id = ?, ended_at = ?
\* WHERE id = ?
CompletedStatement(id, winnerId) ==
    /\ id \in DOMAIN challenges
    /\ challenges' = [challenges EXCEPT ![id].status = "completed",
                                        ![id].winner_id = winnerId,
                                        ![id].ended_at = "ts"]
    /\ data' = executeSQL(data, "completed", <<Str(winnerId), Str("ts"), Str(id)>>)
    /\ UNCHANGED <<users, transactions>>

\* UPDATE challenges SET status = 'completed', ended_at = ? WHERE id = ?
CompletedNoWinnerStatement(id) ==
    /\ id \in DOMAIN challenges
    /\ challenges' = [challenges EXCEPT ![id].status = "completed",
                                        ![id].ended_at = "ts"]
    /\ data' = executeSQL(data, "completedNoWinner", <<Str("ts"), Str(id)>>)
    /\ UNCHANGED <<users, transactions>>

JsonNext ==
    \/ \E amount \in Stakes :
          users["a"].balance < 1000 /\ CreditStatement("a", amount) /\ JsonRest
    \/ \E amount \in Stakes :
          users["a"].balance >= amount /\ DebitStatement("a", amount) /\ JsonRest
    \/ Len(transactions) < MaxJsonTx
          /\ InsertTransactionStatement("a", "deposit", 1000, Null, "pi1") /\ JsonRest
    \/ \E id \in ChallengeIds, type \in {"stake", "win"} :
          Len(transactions) < MaxJsonTx
          /\ InsertTransactionStatement("a", type,
                 IF type = "win" THEN 1800 ELSE -1000, id, Null) /\ JsonRest
    \/ users["a"].total_wins < MaxStatWins /\ WinStatsStatement("a", 1800) /\ JsonRest
    \/ \E stake \in Stakes :
          users["a"].money_lost < 1000 /\ LossStatsStatement("a", stake) /\ JsonRest
    \/ \E id \in ChallengeIds, type \in {"friend", "group"}, stake \in Stakes,
          duration \in Durations :
          InsertChallengeStatement(id, type, "a", stake, duration,
                                   DefaultPlayers(type, 0)) /\ JsonRest
    \/ \E id \in ChallengeIds : ActiveStatement(id) /\ JsonRest
    \/ \E id \in ChallengeIds, winnerId \in UserIds :
          CompletedStatement(id, winnerId) /\ JsonRest
    \/ \E id \in ChallengeIds : CompletedNoWinnerStatement(id) /\ JsonRest

SpecJson == JsonInit /\ [][JsonNext]_vars

----------------------------------------------------------------------------
(* Properties *)

\* the transactions of one type recorded for a challenge
TxsOf(txs, type, id) ==
    SelectSeq(txs, LAMBDA t : t.type = type /\ t.challenge_id = id)

\* the transactions of one user
LedgerOf(txs, u) == SelectSeq(txs, LAMBDA t : t.user_id = u)

\* the deposits recorded with one payment reference
DepositsOf(txs, pay) ==
    SelectSeq(txs, LAMBDA t : t.type = "deposit" /\ t.stripe_payment_id = pay)

StoreUnchanged == UNCHANGED <<users, transactions, challenges, challenge_players>>

\* C1: once a challenge is completed, no later step records another win
\* transaction for it or credits winnings to any user.
C1_SettledAtMostOnce ==
    [][\A id \in DOMAIN challenges :
          challenges[id].status = "completed" =>
              /\ TxsOf(transactions', "win", id) = TxsOf(transactions, "win", id)
              /\ \A u \in DOMAIN users : users'[u].money_won = users[u].money_won]_vars

\* C2: every user's balance equals the signed sum of the amounts of that
\* user's transactions.
C2_LedgerReconciles ==
    \A u \in DOMAIN users :
        users[u].balance = SumAmounts(LedgerOf(transactions, u))

\* C3: a challenge's status changes only from pending to active and from
\* active to completed.
C3_StatusOnlyForward ==
    [][\A id \in DOMAIN challenges :
          \/ challenges'[id].status = challenges[id].status
          \/ challenges[id].status = "pending" /\ challenges'[id].status = "active"
          \/ challenges[id].status = "active" /\ challenges'[id].status = "completed"]_vars

\* C4: winner_id changes only while it is still unset, and only in the step
\* that takes the challenge from active to completed.
C4_WinnerSetOnce ==
    [][\A id \in DOMAIN challenges :
          challenges'[id].winner_id # challenges[id].winner_id =>
              /\ challenges[id].winner_id = Null
              /\ challenges[id].status = "active"
              /\ challenges'[id].status = "completed"]_vars

\* C5: no payment reference ever has more than one deposit, and when a
\* confirm-funds call for a succeeded payment of the caller finishes, the
\* reference has exactly one deposit and the caller's balance has grown by
\* the payment amount if the reference had no deposit yet, by nothing
\* otherwise.
C5_DepositAppliedOnce ==
    [][/\ \A pay \in PaymentIds : Len(DepositsOf(transactions', pay)) <= 1
       /\ \A r \in Waiting :
             (/\ ConfirmFundsResume(r)
              /\ PaymentIntent(r.payment).status = "succeeded"
              /\ PaymentIntent(r.payment).userId = r.user_id)
             => /\ Len(DepositsOf(transactions', r.payment)) = 1
                /\ users'[r.user_id].balance = users[r.user_id].balance +
                      (IF DepositsOf(transactions, r.payment) = <<>>
                       THEN PaymentIntent(r.payment).amount ELSE 0)]_vars

\* C5 witness: the deposit of a payment is recorded while another
\* confirm-funds call carrying the same reference is still waiting.
C5_Witness ==
    \E r \in Waiting :
        /\ r.kind = "confirm"
        /\ PaymentIntent(r.payment).userId = r.user_id
        /\ Len(DepositsOf(transactions, r.payment)) = 1

\* C6: no user's balance is ever negative.
C6_BalanceNeverNegative ==
    \A u \in DOMAIN users : users[u].balance >= 0

\* C7: when different players of a running challenge each report a failure,
\* the challenge stays active and unpaid while two or more players have not
\* failed, and from the failure that leaves one player it is completed with
\* one of its players as winner and at most one win transaction, which is
\* the winner's; the failure of that last player changes none of this.
C7_FailuresSettleOnce ==
    \A id \in DOMAIN challenges :
        LET players == PlayersOf(challenge_players, id)
            remaining == ActivePlayers(players)
            wins == TxsOf(transactions, "win", id)
            winner == challenges[id].winner_id
        IN  /\ Len(remaining) >= 2 =>
                  /\ challenges[id].status = "active"
                  /\ winner = Null
                  /\ wins = <<>>
            /\ Len(remaining) <= 1 =>
                  /\ challenges[id].status = "completed"
                  /\ \E i \in 1..Len(players) : players[i].user_id = winner
                  /\ Len(wins) = (IF winner \in DOMAIN users THEN 1 ELSE 0)
                  /\ \A i \in 1..Len(wins) : wins[i].user_id = winner
            /\ Len(remaining) = 1 => winner = remaining[1].user_id

\* C7 witness: every player has failed, one after the other, and the one
\* winner with an account holds the one win transaction.
C7_Witness ==
    \E id \in DOMAIN challenges :
        /\ ActivePlayers(PlayersOf(challenge_players, id)) = <<>>
        /\ Len(TxsOf(transactions, "win", id)) = 1

\* the transactions that move money on the balance (a loss only restates a
\* stake that was already taken)
Applied(txs, u) ==
    SelectSeq(txs, LAMBDA t : t.user_id = u /\ t.type # "loss")

\* C8: every user's balance is the sum of the stakes, winnings, deposits
\* and withdrawals applied to it, each of which is on the transaction log,
\* whatever requests overlapped.
C8_NoLostUpdate ==
    \A u \in DOMAIN users :
        users[u].balance = SumAmounts(Applied(transactions, u))

\* C8 witness: a withdrawal and a stake of the same user overlapped (the
\* withdrawal was accepted before the stake was taken and paid out after).
C8_Witness ==
    \E u \in DOMAIN users :
        /\ users[u].balance < 0
        /\ \E i \in 1..Len(transactions) :
              transactions[i].user_id = u /\ transactions[i].type = "withdrawal"
        /\ \E i \in 1..Len(transactions) :
              transactions[i].user_id = u /\ transactions[i].type = "stake"

\* C9: a fail on a challenge that is not active changes nothing.
C9_FailNeedsActive ==
    [][\A id \in DOMAIN challenges, u \in UserIds :
          (challenges[id].status # "active" /\ FailChallenge(id, u))
              => StoreUnchanged]_vars

\* C10: a complete on a challenge that is not active changes nothing.
C10_CompleteNeedsActive ==
    [][\A id \in DOMAIN challenges, u \in UserIds :
          (challenges[id].status # "active" /\ CompleteChallenge(id, u))
              => StoreUnchanged]_vars

\* the roster rows of one user in one challenge
RowsOf(rows, id, u) ==
    SelectSeq(rows, LAMBDA p : p.challenge_id = id /\ p.user_id = u)

\* the stake transactions of one user for one challenge
StakesOf(txs, id, u) ==
    SelectSeq(txs, LAMBDA t : t.type = "stake" /\ t.challenge_id = id /\ t.user_id = u)

\* the win transactions of one user
WinsOf(txs, u) == SelectSeq(txs, LAMBDA t : t.type = "win" /\ t.user_id = u)

\* C11: a join of a challenge that is not pending, or that is pending with
\* max_players roster entries, changes neither the roster nor any user.
C11_JoinRejectedWhenClosed ==
    [][\A id \in DOMAIN challenges, userId \in UserIdsV1 :
          (/\ \/ challenges[id].status # "pending"
              \/ Len(PlayersOf(challenge_players, id)) >= challenges[id].max_players
           /\ JoinChallengeV1(id, userId))
          => UNCHANGED <<users, challenge_players>>]_vars

\* C12: whatever joins were made, a user has at most one roster entry and
\* at most one stake transaction per challenge.
C12_JoinOncePerUser ==
    \A id \in DOMAIN challenges, u \in UserIds :
        /\ Len(RowsOf(challenge_players, id, u)) <= 1
        /\ Len(StakesOf(transactions, id, u)) <= 1

\* C13: a join of a non-solo challenge that adds the user to the roster
\* takes exactly the stake from the user's balance and records exactly one
\* stake transaction of minus the stake; a join by a user whose balance is
\* below the stake changes nothing.
C13_JoinEscrowsStake ==
    [][\A id \in DOMAIN challenges, u \in DOMAIN users, auth \in BOOLEAN :
          (challenges[id].type # "solo" /\ JoinChallenge(id, u, auth))
          => /\ challenge_players' # challenge_players
                => /\ users'[u].balance = users[u].balance - challenges[id].stake_amount
                   /\ transactions' = Append(transactions,
                          Tx(u, "stake", -challenges[id].stake_amount, id, Null))
             /\ users[u].balance < challenges[id].stake_amount
                => StoreUnchanged]_vars

\* C14: after a ready call the challenge is active with started_at set
\* exactly when every player on the roster is ready and the roster has at
\* least one entry for solo, two for every other mode.
C14_ReadyQuorum ==
    [][\A id \in DOMAIN challenges, u \in UserIds :
          MarkReady(id, u)
          => LET players == PlayersOf(challenge_players', id)
             IN  (challenges'[id].status = "active" /\ challenges'[id].started_at # Null)
                 <=> (/\ \A i \in 1..Len(players) : players[i].paid => players[i].ready
                      /\ Len(players) >= MinPlayers(challenges[id].type))]_vars

\* C15: a player's failed and completed flags, once set, stay set, and are
\* never both set.
C15_FlagsExclusive ==
    [][\A i \in 1..Len(challenge_players) :
          /\ challenge_players[i].failed => challenge_players'[i].failed
          /\ challenge_players[i].completed => challenge_players'[i].completed
          /\ ~(challenge_players'[i].failed /\ challenge_players'[i].completed)]_vars

\* C16: a fail sets the user's current_streak to 0; a solo completion and
\* every step that records winnings for a user raise that user's
\* current_streak by one and leave best_streak at the larger of its old
\* value and the new current_streak; best_streak is never below
\* current_streak.
C16_StreakUpdates ==
    [][/\ \A id \in DOMAIN challenges, u \in DOMAIN users :
             FailChallenge(id, u) => users'[u].current_streak = 0
       /\ \A id \in DOMAIN challenges, u \in DOMAIN users :
             (challenges[id].type = "solo" /\ CompleteChallenge(id, u))
             => users'[u].current_streak = users[u].current_streak + 1
       /\ \A u \in DOMAIN users :
             Len(WinsOf(transactions', u)) > Len(WinsOf(transactions, u))
             => /\ users'[u].current_streak = users[u].current_streak + 1
                /\ users'[u].best_streak =
                      Max(users[u].best_streak, users'[u].current_streak)
       /\ \A u \in DOMAIN users :
             users'[u].best_streak >= users'[u].current_streak]_vars

\* u is the one player of challenge id and has neither failed nor completed
SolePlayer(id, u) ==
    LET players == PlayersOf(challenge_players, id)
    IN  /\ players # <<>>
        /\ \A i \in 1..Len(players) :
              /\ players[i].user_id = u
              /\ ~players[i].failed
              /\ ~players[i].completed

\* C17: the first fail of the one player of an active solo challenge leaves
\* it completed with no winner, and the first complete leaves it completed
\* with the player as winner.
C17_SoloEnds ==
    [][\A id \in DOMAIN challenges, u \in UserIds :
          (/\ challenges[id].type = "solo"
           /\ challenges[id].status = "active"
           /\ SolePlayer(id, u))
          => /\ FailChallenge(id, u)
                => /\ challenges'[id].status = "completed"
                   /\ challenges'[id].winner_id = Null
             /\ CompleteChallenge(id, u)
                => /\ challenges'[id].status = "completed"
                   /\ challenges'[id].winner_id = u]_vars

\* challenge id has the two different players u and v, in either order
Duo(id, u, v) ==
    LET players == PlayersOf(challenge_players, id)
    IN  /\ Len(players) = 2
        /\ u # v
        /\ {players[1].user_id, players[2].user_id} = {u, v}

\* C18: in an active challenge between two friends, the first fail leaves
\* it completed with the other player as winner, and the complete after which both
\* have completed leaves it completed with "draw" as winner and no balance
\* lowered.
C18_DuoEnds ==
    [][\A id \in DOMAIN challenges, u \in UserIds, v \in UserIds :
          (/\ challenges[id].type = "friend"
           /\ challenges[id].status = "active"
           /\ Duo(id, u, v))
          => /\ (ActivePlayers(challenge_players) = challenge_players
                 /\ FailChallenge(id, u))
                => /\ challenges'[id].status = "completed"
                   /\ challenges'[id].winner_id = v
             /\ (/\ CompleteChallenge(id, u)
                 /\ \A i \in 1..Len(challenge_players') :
                       challenge_players'[i].completed)
                => /\ challenges'[id].status = "completed"
                   /\ challenges'[id].winner_id = "draw"
                   /\ \A w \in DOMAIN users :
                         users'[w].balance >= users[w].balance]_vars

\* C19: after a fail in an active royale the challenge is still active if
\* two or more players have not failed, and otherwise completed, with the
\* one player who has not failed as winner, or no winner if none is left.
C19_RoyaleEnds ==
    [][\A id \in DOMAIN challenges, u \in UserIds :
          (/\ challenges[id].type = "royale"
           /\ challenges[id].status = "active"
           /\ FailChallenge(id, u))
          => LET remaining == ActivePlayers(PlayersOf(challenge_players', id))
             IN  IF Len(remaining) >= 2
                 THEN challenges'[id].status = "active"
                 ELSE /\ challenges'[id].status = "completed"
                      /\ challenges'[id].winner_id = FirstUserId(remaining)]_vars

\* every player of the challenge has failed or completed
EveryoneFinished(rows, id) ==
    LET players == PlayersOf(rows, id)
    IN  \A i \in 1..Len(players) : players[i].failed \/ players[i].completed

\* C20: a step of an active group challenge that leaves some player neither
\* failed nor completed leaves the challenge active and records no
\* winnings, and a step that completes the challenge leaves winner_id unset.
C20_GroupEndsWhenAllFinished ==
    [][\A id \in DOMAIN challenges :
          (challenges[id].type = "group" /\ challenges[id].status = "active")
          => /\ ~EveryoneFinished(challenge_players', id)
                => /\ challenges'[id].status = "active"
                   /\ TxsOf(transactions', "win", id) = TxsOf(transactions, "win", id)
             /\ challenges'[id].status = "completed"
                => challenges'[id].winner_id = Null]_vars

\* every roster row of the challenge is failed (and there is one)
EveryoneFailed(rows, id) ==
    LET players == PlayersOf(rows, id)
    IN  /\ players # <<>>
        /\ \A i \in 1..Len(players) : players[i].failed

\* the transactions of one user for one challenge
ChallengeLedgerOf(txs, id, u) ==
    SelectSeq(txs, LAMBDA t : t.challenge_id = id /\ t.user_id = u)

\* C21: the step that completes an active challenge all of whose players
\* have failed leaves it without a winner, records no win transaction for
\* it and raises no balance; the challenge has no win transaction at all.
C21_AllFailedForfeits ==
    [][\A id \in DOMAIN challenges :
          (/\ challenges[id].status = "active"
           /\ challenges'[id].status = "completed"
           /\ EveryoneFailed(challenge_players', id))
          => /\ challenges'[id].winner_id = Null
             /\ TxsOf(transactions', "win", id) = <<>>
             /\ \A u \in DOMAIN users : users'[u].balance <= users[u].balance]_vars

\* the loss transactions of one user for one challenge
LossesOf(txs, id, u) ==
    SelectSeq(txs, LAMBDA t : t.type = "loss" /\ t.challenge_id = id /\ t.user_id = u)

\* C22: after the first fail of a player whose stake was escrowed once for
\* the challenge, that player's transactions for the challenge sum to minus
\* the stake, the balance is lower by exactly the stake than it was before
\* the escrow (the fail takes nothing more), and the streak is 0.
C22_FailLosesOneStake ==
    [][\A id \in DOMAIN challenges, u \in DOMAIN users :
          (/\ Len(StakesOf(transactions, id, u)) = 1
           /\ LossesOf(transactions, id, u) = <<>>
           /\ RowsOf(challenge_players, id, u) # <<>>
           /\ FailChallenge(id, u))
          => /\ SumAmounts(ChallengeLedgerOf(transactions', id, u))
                   = -challenges[id].stake_amount
             /\ users'[u].balance = users[u].balance
             /\ users'[u].current_streak = 0]_vars

\* this step takes the challenge from active to completed
Settles(id) ==
    /\ challenges[id].status = "active"
    /\ challenges'[id].status = "completed"

\* the amount of the last transaction recorded
LastAmount(txs) == txs[Len(txs)].amount

\* the fee in percent by the stake of one player
FeeTier(stake) == IF stake >= 10000 THEN 15 ELSE 10

\* the bonus in percent by the streak
BonusTier(streak) ==
    IF streak >= 7 THEN 10
    ELSE IF streak >= 5 THEN 7
    ELSE IF streak >= 3 THEN 5
    ELSE 0

\* C23: the winnings recorded at a settlement are the pot less 15 percent
\* when the stake of one player is at least 10000 and less 10 percent
\* otherwise, whatever the size of the pot (before the streak bonus).
C23_FeeTiers ==
    [][\A id \in DOMAIN challenges :
          Settles(id)
          => LET c == challenges[id]
                 n == Len(PlayersOf(challenge_players, id))
                 w == challenges'[id].winner_id
                 base == Round(n * c.stake_amount * (100 - FeeTier(c.stake_amount)), 100)
             IN  LastAmount(transactions') =
                     TotalWinnings(base, users[w].current_streak)]_vars

\* C23 witness: a challenge at a stake of exactly 10000, the first stake of
\* the upper tier, has been settled and paid.
C23_Witness ==
    \E id \in DOMAIN challenges :
        /\ challenges[id].stake_amount = 10000
        /\ challenges[id].status = "completed"
        /\ TxsOf(transactions, "win", id) # <<>>

\* C24: the winnings recorded at a settlement are the winnings after the
\* fee raised by 10 percent if the winner's streak before the step was 7
\* or more, by 7 percent if it was 5 or 6, by 5 percent if it was 3 or 4,
\* and not raised if it was below 3.
C24_BonusFromStreakBefore ==
    [][\A id \in DOMAIN challenges :
          Settles(id)
          => LET w == challenges'[id].winner_id
                 winnings == Winnings(challenges[id], PlayersOf(challenge_players, id))
             IN  LastAmount(transactions') =
                     Round(winnings * (100 + BonusTier(users[w].current_streak)), 100)]_vars

\* C24 witness: a winner who came with a streak of 6 has been paid and now
\* has a streak of 7.
C24_Witness ==
    \E id \in DOMAIN challenges :
        /\ challenges[id].status = "completed"
        /\ challenges[id].winner_id \in DOMAIN users
        /\ users[challenges[id].winner_id].current_streak = 7
        /\ TxsOf(transactions, "win", id) # <<>>

\* C25: at the settlement of a duel or royale of n players at stake s the
\* winner's balance grows by round(round(n*s*(100-fee)/100) * (1+bonus)),
\* and the challenge has exactly one win transaction, of that amount and
\* for the winner.
C25_WinnerPayout ==
    [][\A id \in DOMAIN challenges :
          (Settles(id) /\ challenges[id].type \in {"friend", "royale"})
          => LET c == challenges[id]
                 n == Len(PlayersOf(challenge_players, id))
                 w == challenges'[id].winner_id
                 payout == Round(Round(n * c.stake_amount
                                           * (100 - FeeTier(c.stake_amount)), 100)
                                   * (100 + BonusTier(users[w].current_streak)), 100)
             IN  /\ users'[w].balance = users[w].balance + payout
                 /\ TxsOf(transactions', "win", id) =
                        <<Tx(w, "win", payout, id, Null)>>]_vars

\* C25 witness: a royale of five players at a stake of 1000 has paid 4500 to
\* the last player left.
C25_Witness ==
    \E id \in DOMAIN challenges :
        /\ challenges[id].type = "royale"
        /\ Len(PlayersOf(challenge_players, id)) = 5
        /\ \E i \in 1..Len(transactions) :
              /\ transactions[i].type = "win"
              /\ transactions[i].challenge_id = id
              /\ transactions[i].amount = 4500

\* the win transactions of one user for one challenge
ChallengeWinsOf(txs, id, u) ==
    SelectSeq(txs, LAMBDA t : t.type = "win" /\ t.challenge_id = id /\ t.user_id = u)

\* no user is on the roster of the challenge twice
DistinctRoster(rows, id) ==
    LET players == PlayersOf(rows, id)
    IN  \A i, j \in 1..Len(players) :
           players[i].user_id = players[j].user_id => i = j

\* C26: at the settlement of a group challenge with f failed players and
\* k >= 1 survivors (completed and not failed) at stake s, the balance of
\* every survivor grows by s + floor(round(f*s*(100-fee)/100) / k) and the
\* survivor has one win transaction of that amount for the challenge.
C26_GroupPayout ==
    [][\A id \in DOMAIN challenges :
          (/\ Settles(id)
           /\ challenges[id].type = "group"
           /\ DistinctRoster(challenge_players, id))
          => LET c == challenges[id]
                 players == PlayersOf(challenge_players', id)
                 survivors == SelectSeq(players, LAMBDA p : p.completed /\ ~p.failed)
                 f == Len(SelectSeq(players, LAMBDA p : p.failed))
             IN  \A i \in 1..Len(survivors) :
                    LET v == survivors[i].user_id
                        share == c.stake_amount
                                   + Floor(Round(f * c.stake_amount
                                                   * (100 - FeeTier(c.stake_amount)), 100),
                                           Len(survivors))
                    IN  v \in DOMAIN users
                        => /\ users'[v].balance = users[v].balance + share
                           /\ ChallengeWinsOf(transactions', id, v) =
                                  <<Tx(v, "win", share, id, Null)>>]_vars

\* every player of the challenge is marked ready
AllPlayersReady(id) ==
    \A i \in 1..Len(challenge_players) :
        challenge_players[i].challenge_id = id => challenge_players[i].ready

\* C27: creating a solo challenge and marking its player ready leave every
\* balance and the transaction log as they were, and the complete of the
\* ready player of a solo challenge leaves the balance as it was, raises
\* total_wins and current_streak by one and leaves the challenge completed
\* with the player as winner, with no transaction recorded.
C27_SoloWinReturnsStake ==
    [][/\ \A id \in ChallengeIds, u \in UserIds, auth \in BOOLEAN, stake \in Stakes,
             duration \in Durations, maxPlayers \in MaxPlayersArgs :
             CreateChallenge(id, u, auth, "solo", stake, duration, maxPlayers)
             => UNCHANGED <<users, transactions>>
       /\ \A id \in DOMAIN challenges, u \in UserIds :
             MarkReady(id, u) => UNCHANGED <<users, transactions>>
       /\ \A id \in DOMAIN challenges, u \in DOMAIN users :
             (/\ challenges[id].type = "solo"
              /\ SolePlayer(id, u)
              /\ AllPlayersReady(id)
              /\ CompleteChallenge(id, u))
             => /\ users'[u].balance = users[u].balance
                /\ users'[u].total_wins = users[u].total_wins + 1
                /\ users'[u].current_streak = users[u].current_streak + 1
                /\ challenges'[id].status = "completed"
                /\ challenges'[id].winner_id = u
                /\ UNCHANGED transactions]_vars

\* C27 witness: the one player of a solo challenge was marked ready and
\* completed it, and is its winner with one win.
C27_Witness ==
    \E id \in DOMAIN challenges :
        LET players == PlayersOf(challenge_players, id)
        IN  /\ challenges[id].type = "solo"
            /\ challenges[id].status = "completed"
            /\ Len(players) = 1
            /\ players[1].ready /\ players[1].completed /\ ~players[1].failed
            /\ challenges[id].winner_id = players[1].user_id
            /\ users[players[1].user_id].total_wins = 1
            /\ users[players[1].user_id].current_streak = 1

\* C28: a create whose stake is zero or negative, or whose type is not
\* royale and whose duration is missing, is rejected: it adds no challenge,
\* no player and no transaction and changes no balance.
C28_CreateValidates ==
    [][\A id \in ChallengeIds, u \in UserIds, auth \in BOOLEAN, type \in Types,
          stake \in CreateStakes, duration \in CreateDurations,
          maxPlayers \in MaxPlayersArgs :
          (/\ stake <= 0 \/ (type # "royale" /\ duration = 0)
           /\ CreateChallenge(id, u, auth, type, stake, duration, maxPlayers))
          => UNCHANGED <<users, transactions, challenges, challenge_players>>]_vars

\* C29: a join or a withdrawal one of whose store statements throws leaves
\* none of its writes behind: balances, transactions and roster are as they
\* were before the request.
C29_MoneyAllOrNothing ==
    [][/\ \A id \in ChallengeIds, u \in UserIds, auth \in BOOLEAN, written \in 0..2 :
             JoinChallengeInterrupted(id, u, auth, written)
             => UNCHANGED <<users, transactions, challenge_players>>
       /\ \A r \in Waiting, written \in 0..1 :
             WithdrawResumeInterrupted(r, written)
             => UNCHANGED <<users, transactions>>]_vars

\* C30: when the transfer of a withdrawal fails, balances and transactions
\* stay as they are; when it succeeds, the user's balance is reduced by the
\* amount, no other user changes, and exactly one withdrawal transaction of
\* the negative amount is appended.
C30_WithdrawOutcome ==
    [][\A r \in Waiting, ok \in BOOLEAN :
          (r.kind = "withdraw" /\ WithdrawResume(r, ok))
          => IF ok
             THEN /\ users'[r.user_id].balance = users[r.user_id].balance - r.amount
                  /\ \A v \in DOMAIN users : v # r.user_id => users'[v] = users[v]
                  /\ transactions' = Append(transactions,
                         [user_id |-> r.user_id, type |-> "withdrawal",
                          amount |-> -r.amount, challenge_id |-> Null,
                          stripe_payment_id |-> "tr"])
             ELSE UNCHANGED <<users, transactions>>]_vars

\* C30 witness: a withdrawal is on record with a negative amount, and the
\* user's balance is the sum of the user's transactions, the withdrawal
\* included.
C30_Witness ==
    \E i \in 1..Len(transactions) :
        /\ transactions[i].type = "withdrawal"
        /\ transactions[i].amount = -1000
        /\ users[transactions[i].user_id].balance =
              SumAmounts(SelectSeq(transactions,
                  LAMBDA t : t.user_id = transactions[i].user_id))

\* C35: session-failed is sent by a callback exactly when the callback
\* detects the third distraction of the running session; it is never sent
\* while fewer than three distractions were detected in that session.
C35_FailedAtThirdStrike ==
    [][\A cb \in BagToSet(callbacks), outcome \in Outcomes :
          ResumeCallback(cb, outcome)
          => ((\E i \in 1..Len(sent') : sent'[i] = "session-failed")
              <=> (/\ sessionActive
                   /\ outcome = "distracted"
                   /\ cb.session = session
                   /\ detected' = 3))]_vars

\* C40: at most one monitoring timer is alive, ending the session leaves
\* none, and a callback that resumes after its session has ended counts no
\* distraction and sends no session-failed.
C40_OneTimer ==
    [][/\ Cardinality(timers') <= 1
       /\ \A won \in BOOLEAN : EndSessionRequest(won) => timers' = {}
       /\ \A cb \in BagToSet(callbacks), outcome \in Outcomes :
             (ResumeCallback(cb, outcome) /\ (~sessionActive \/ cb.session # session))
             => /\ sessionData'.distractionCount = sessionData.distractionCount
                /\ \A i \in 1..Len(sent') : sent'[i] # "session-failed"]_vars

\* C31: when challenge:start is emitted the status active is stored, and
\* when challenge:end is emitted the status completed is stored and, for a
\* winner or survivor with an account, so are the credit to the balance and
\* its win transaction (of the request that just changed the store).
C31_EmittedAfterStored ==
    [][\A i \in 1..Len(emitted') :
          serverVars' # serverVars =>
          LET e == emitted'[i]
              id == e.challengeId
              w == e.winnerId
          IN  /\ e.name = "challenge:start" => e.stored.status = "active"
              /\ e.name = "challenge:end"
                 => /\ e.stored.status = "completed"
                    /\ w \in DOMAIN users
                       => /\ Len(ChallengeWinsOf(e.stored.transactions, id, w))
                               = Len(ChallengeWinsOf(transactions, id, w)) + 1
                          /\ e.stored.users[w].balance
                               = users[w].balance + LastAmount(e.stored.transactions)
                    /\ \A k \in 1..Len(e.survivors) :
                          e.survivors[k] \in DOMAIN users
                          => /\ Len(ChallengeWinsOf(e.stored.transactions, id, e.survivors[k]))
                                  > Len(ChallengeWinsOf(transactions, id, e.survivors[k]))
                             /\ e.stored.users[e.survivors[k]].balance
                                  > users[e.survivors[k]].balance]_vars

\* C31 witness: the last request started a challenge and emitted
\* challenge:start, or settled one for a winner with an account and emitted
\* challenge:end; here the second.
C31_Witness ==
    \E i \in 1..Len(emitted) :
        /\ emitted[i].name = "challenge:end"
        /\ emitted[i].winnerId \in DOMAIN users
        /\ challenges[emitted[i].challengeId].status = "completed"
        /\ Len(ChallengeWinsOf(transactions, emitted[i].challengeId,
                               emitted[i].winnerId)) = 1

\* C32: a socket that joins the room of an existing challenge is delivered
\* one event, the snapshot of the challenge, by the join itself.
C32_SnapshotOnSubscribe ==
    [][\A s \in Sockets, id \in DOMAIN challenges :
          (s \notin rooms[id] /\ JoinRoom(s, id))
          => Len(received'[s]) = Len(received[s]) + 1]_vars

\* C33: the winnings carried by a challenge:end event that names a winner
\* with an account are the amount of the win transaction just recorded, the
\* streak bonus included.
C33_EventCarriesPayout ==
    [][\A i \in 1..Len(emitted') :
          (/\ emitted'[i].name = "challenge:end"
           /\ emitted'[i].winnerId \in DOMAIN users)
          => emitted'[i].winnings = LastAmount(transactions')]_vars

\* the two stores hold the same users, challenges and transactions, and a
\* lookup by payment reference finds a row in the one exactly when it does
\* in the other
StoresAgree ==
    /\ data.users = users
    /\ data.challenges = challenges
    /\ data.transactions = [i \in 1..Len(transactions) |-> JsRow(transactions[i])]
    /\ \A pay \in PaymentIds :
          Truthy(SelectTransactions(data, <<Str(pay)>>))
              = ExistingPayment(transactions, pay)

\* C34: after every statement of the engine the JSON-file store reads back
\* as the relational store does: users, challenges, transactions, and the
\* lookup of a transaction by its payment reference.
C34_JsonStoreAgrees ==
    [][(/\ data.users = users
        /\ data.challenges = challenges
        /\ data.transactions = [i \in 1..Len(transactions) |-> JsRow(transactions[i])])
       => StoresAgree']_vars

\* C36: for every challenge the win transactions recorded add up to no
\* more than the stakes escrowed for it (the stake transactions).
C36_PayoutWithinEscrow ==
    \A id \in DOMAIN challenges :
        SumAmounts(TxsOf(transactions, "win", id))
            <= -SumAmounts(TxsOf(transactions, "stake", id))

\* C37: the amount a single winner is paid at a settlement is at most the
\* pot (stake times roster), and in a group settlement the survivors'
\* shares together are at most the distributable amount and fall short of
\* it by less than the number of survivors.
C37_PayoutWithinPot ==
    [][/\ \A id \in DOMAIN challenges :
             (Settles(id) /\ Len(transactions') = Len(transactions) + 2)
             => LastAmount(transactions')
                   <= challenges[id].stake_amount
                        * Len(PlayersOf(challenge_players, id))
       /\ \A stake \in PayoutStakes, losers \in 0..MaxPayoutPlayers,
             survivors \in 1..MaxPayoutPlayers :
             LET distributablePot ==
                     Round(losers * stake * (100 - getPlatformFee(stake)), 100)
                 perSurvivor == Floor(distributablePot, survivors)
             IN  /\ perSurvivor * survivors <= distributablePot
                 /\ distributablePot - perSurvivor * survivors < survivors]_vars

\* C38: in every state a challenge has at most max_players player rows,
\* and a challenge created without maxPlayers holds 1 (solo), 2 (friend)
\* or 5 (royale, group).
C38_RosterWithinMax ==
    \A id \in DOMAIN challenges :
        Len(PlayersOf(challenge_players, id)) <= challenges[id].max_players

\* C39: a confirm-funds request changes balances or the log only when the
\* gateway reports the payment as succeeded and the payment's owner is the
\* caller; then only the owner's row changes and the one transaction added
\* is the owner's deposit.  A payment of one user never changes another
\* user's balance or log, and a payment not yet succeeded changes nothing.
C39_ConfirmCreditsOwnerOnly ==
    [][\A r \in Waiting :
          ConfirmFundsResume(r) =>
          LET paymentIntent == PaymentIntent(r.payment)
          IN  /\ (users' # users \/ transactions' # transactions)
                    => /\ paymentIntent.status = "succeeded"
                       /\ paymentIntent.userId = r.user_id
              /\ \A v \in DOMAIN users :
                    v # paymentIntent.userId => users'[v] = users[v]
              /\ Len(transactions') >= Len(transactions)
              /\ SubSeq(transactions', 1, Len(transactions)) = transactions
              /\ \A i \in Len(transactions) + 1..Len(transactions') :
                    /\ transactions'[i].user_id = paymentIntent.userId
                    /\ transactions'[i].type = "deposit"
                    /\ transactions'[i].amount = paymentIntent.amount
              /\ paymentIntent.status # "succeeded"
                    => UNCHANGED <<users, transactions>>]_vars

\* the owner of a succeeded payment has been credited, the other user not
C39_Witness ==
    /\ \E i \in 1..Len(transactions) :
          /\ transactions[i].type = "deposit"
          /\ transactions[i].user_id = "a"
          /\ transactions[i].stripe_payment_id = "pi1"
    /\ users["a"].balance = 1000
    /\ users["b"].balance = 0
    /\ \A i \in 1..Len(transactions) : transactions[i].user_id # "b"

====
